---- MODULE Spec2Model ----
(***************************************************************************)
(* Conversation / Task manager of the chat backend.                        *)
(*                                                                         *)
(* The entity store (two MongoDB collections) is the pair                  *)
(* conversations / tasks.  Every request handler is a coroutine whose      *)
(* awaited store operations are its atomic steps: a handler is written as  *)
(* a step function  (db, call) -> (db, call)  that performs the store      *)
(* operation at the call's program counter.  Under Spec one request runs   *)
(* at a time; under SpecConc the steps of MaxSlots requests interleave.    *)
(*                                                                         *)
(* An optional value (Python None / a value) is a sequence of length 0 or  *)
(* 1.  A string whose length matters is a sequence of characters.          *)
(***************************************************************************)
EXTENDS Integers, Sequences, FiniteSets, TLC

VARIABLES
    conversations,      \* "conversations" collection: _id -> document
    tasks,              \* "tasks" collection: _id -> document
    next_conversation_oid,  \* ObjectIds handed out so far by insert_one
    next_task_oid,
    calls,              \* request slot -> the handler running in it
    last,               \* the call that took the most recent step
    completed_appends,  \* task _id -> messages pushed, in completion order
    now,                \* the clock read by datetime.now()
    user_sessions,      \* SocketIOService.user_sessions: sid -> user_id
    user_rooms,         \* SocketIOService.user_rooms: user_id -> room name
    rooms,              \* room membership kept by the server: <<sid, room>>
    env                 \* the workload: request slots and request inputs

vars == <<conversations, tasks, next_conversation_oid, next_task_oid,
          calls, last, completed_appends, now,
          user_sessions, user_rooms, rooms, env>>

----------------------------------------------------------------------------
(* Bounds *)

MaxTasks == 2          \* tasks ever created (Spec, SpecTitle)
MaxConvs == 2          \* conversations ever created (Spec, SpecTitle)
MaxSlots == 2          \* request slots (interleaved handlers in SpecConc)
MaxAppends == 2        \* messages appended to one task (SpecConc)
AccessMaxTasks == 1    \* the same three bounds under SpecAccess
AccessMaxConvs == 1
AccessMaxAppends == 1
ConcMaxTasks == 1      \* tasks ever created under SpecConc
LifecycleMaxTasks == 1 \* tasks ever created under SpecLifecycle
StateMaxTasks == 2     \* tasks ever created under SpecResume
StateMaxWrites == 2    \* terminal writes (SpecLifecycle, SpecResume)
DeleteMaxTasks == 3    \* tasks ever created under SpecDelete
MaxSids == 2           \* connections open at a time (SpecSocket)
SocketMaxTasks == 1    \* tasks ever created under SpecSocket
SocketMaxConvs == 1    \* conversations ever created under SpecSocket
AgentMaxTasks == 2     \* tasks ever created under SpecAgent
AgentMaxConvs == 1     \* conversations ever created under SpecAgent
LiveMaxTasks == 2      \* tasks ever created under SpecAgentLive
ListMaxTasks == 3      \* tasks ever created under SpecList
RaceMaxTasks == 2      \* tasks ever created under SpecRace
RaceMaxConvs == 1      \* conversations ever created under SpecRace
OrphanMaxTasks == 1    \* tasks ever created under SpecOrphan
OrphanMaxWrites == 1   \* terminal writes under SpecOrphan
FrameMaxTasks == 1     \* tasks ever created under SpecFrame
FrameMaxWrites == 1    \* terminal writes under SpecFrame

----------------------------------------------------------------------------
(* Values *)

Users == {"u1", "u2"}

\* ObjectId strings.  Allocated ids are 1, 2, ...; GhostOid is a well-formed
\* id that no insert ever returned; InvalidOid is a string that is not an
\* ObjectId; NoneOid is an absent (None) id.
GhostOid == 0
InvalidOid == 0 - 1
NoneOid == 0 - 2

ObjectId_is_valid(x) == x >= 0

TitleLen == 50
SoulcareTitleLen == 40

Min(a, b) == IF a < b THEN a ELSE b

Chars == <<"a", "b", "c">>

\* A message of n characters; the character depends on the position.
Msg(n) == [i \in 1..n |-> Chars[(i % 3) + 1]]

Ellipsis == <<".", ".", ".">>
SoulcarePrefix == <<"S", "o", "u", "l", "c", "a", "r", "e", ":", " ">>

\* Python slice s[:n]
Prefix(s, n) == SubSeq(s, 1, Min(n, Len(s)))

AppendRoles == {"assistant", "system"}

\* The users collection read by the connect handler: u3 is inactive and
\* every other id is the id of no user
ActiveUsers == Users
InactiveUsers == {"u3"}

\* Bearer tokens: the token issued to a user, named by the user's id, and
\* a string that does not verify
BadToken == "bad"

\* Room names
UserRoom(user_id) == <<"user", user_id>>
ConversationRoom(conversation_id) == <<"conversation", conversation_id>>

\* Opaque agent state blobs (JSON objects) as sets of key/value pairs
EmptyState == {}
State(n) == {<<"team", n>>}

None == <<>>
Some(x) == <<x>>
IsNone(o) == o = <<>>

----------------------------------------------------------------------------
(* Entity store: the repository operations, each one atomic store call *)

DB == [conversations |-> conversations, tasks |-> tasks,
       next_conversation_oid |-> next_conversation_oid,
       next_task_oid |-> next_task_oid, now |-> now,
       user_sessions |-> user_sessions, user_rooms |-> user_rooms,
       rooms |-> rooms]

\* BaseRepository.create on the conversations collection
ConversationRepository_create(db, data) ==
    LET oid == db.next_conversation_oid
        doc == [id |-> oid, user_id |-> data.user_id, title |-> data.title,
                task_ids |-> data.task_ids, is_active |-> data.is_active]
    IN [db |-> [db EXCEPT !.conversations = db.conversations @@ (oid :> doc),
                          !.next_conversation_oid = oid + 1],
        doc |-> doc]

\* BaseRepository.create on the tasks collection; Task(**data) fills the
\* fields the data leaves out with the model's defaults (messages = []).
TaskRepository_create(db, data) ==
    LET oid == db.next_task_oid
        doc == [id |-> oid, conversation_id |-> data.conversation_id,
                user_id |-> data.user_id, user_message |-> data.user_message,
                messages |-> <<>>, status |-> data.status,
                completion_percentage |-> data.completion_percentage,
                agent_type |-> data.agent_type,
                started_at |-> data.started_at,
                agent_state |-> {}, completed_at |-> None,
                error_message |-> None]
    IN [db |-> [db EXCEPT !.tasks = db.tasks @@ (oid :> doc),
                          !.next_task_oid = oid + 1],
        doc |-> doc]

\* The ownership filter left out of the query (a lookup by _id alone)
get_user_task_AnyUser(db, task_id, user_id) ==
    IF ~ObjectId_is_valid(task_id) THEN None
    ELSE IF task_id \in DOMAIN db.tasks
         THEN Some(db.tasks[task_id])
         ELSE None

get_user_task(db, task_id, user_id) ==
    IF ~ObjectId_is_valid(task_id) THEN None
    ELSE IF task_id \in DOMAIN db.tasks /\ db.tasks[task_id].user_id = user_id
         THEN Some(db.tasks[task_id])
         ELSE None

\* The ownership filter left out of the query (a lookup by _id alone)
get_user_conversation_AnyUser(db, conversation_id, user_id) ==
    IF ~ObjectId_is_valid(conversation_id) THEN None
    ELSE IF conversation_id \in DOMAIN db.conversations
         THEN Some(db.conversations[conversation_id])
         ELSE None

get_user_conversation(db, conversation_id, user_id) ==
    IF ~ObjectId_is_valid(conversation_id) THEN None
    ELSE IF /\ conversation_id \in DOMAIN db.conversations
            /\ db.conversations[conversation_id].user_id = user_id
         THEN Some(db.conversations[conversation_id])
         ELSE None

InSeq(x, s) == \E i \in 1..Len(s) : s[i] = x

\* $addToSet
AddToSet(s, x) == IF InSeq(x, s) THEN s ELSE Append(s, x)

\* $pull
Pull(s, x) == SelectSeq(s, LAMBDA y : y # x)

add_task_to_conversation(db, conversation_id, task_id) ==
    IF ~ObjectId_is_valid(conversation_id) \/ ~ObjectId_is_valid(task_id)
    THEN db
    ELSE IF conversation_id \in DOMAIN db.conversations
         THEN [db EXCEPT !.conversations[conversation_id].task_ids =
                            AddToSet(@, task_id)]
         ELSE db

\* The conversation's list left as it is
remove_task_from_conversation_Nothing(db, conversation_id, task_id) == db

remove_task_from_conversation(db, conversation_id, task_id) ==
    IF ~ObjectId_is_valid(conversation_id) \/ ~ObjectId_is_valid(task_id)
    THEN db
    ELSE IF conversation_id \in DOMAIN db.conversations
         THEN [db EXCEPT !.conversations[conversation_id].task_ids =
                            Pull(@, task_id)]
         ELSE db

Without(f, ids) == [x \in (DOMAIN f) \ ids |-> f[x]]

\* returns the store and whether a document was deleted
delete_user_task(db, task_id, user_id) ==
    IF IsNone(get_user_task(db, task_id, user_id))
    THEN [db |-> db, deleted |-> FALSE]
    ELSE [db |-> [db EXCEPT !.tasks = Without(db.tasks, {task_id})],
          deleted |-> TRUE]

\* The cascade left out: no task is deleted
delete_conversation_tasks_Nothing(db, conversation_id) == db

delete_conversation_tasks(db, conversation_id) ==
    IF ~ObjectId_is_valid(conversation_id) THEN db
    ELSE [db EXCEPT !.tasks =
            Without(db.tasks,
                    {t \in DOMAIN db.tasks :
                        db.tasks[t].conversation_id = conversation_id})]

delete_user_conversation(db, conversation_id, user_id) ==
    IF IsNone(get_user_conversation(db, conversation_id, user_id))
    THEN [db |-> db, deleted |-> FALSE]
    ELSE [db |-> [db EXCEPT !.conversations =
                                Without(db.conversations, {conversation_id})],
          deleted |-> TRUE]

\* find_one_and_update with $push, ReturnDocument.AFTER
\* The push done as an upsert
TaskRepository_add_message_to_task_Upsert(db, task_id, message) ==
    IF ~ObjectId_is_valid(task_id) THEN [db |-> db, doc |-> None]
    ELSE LET doc == IF task_id \in DOMAIN db.tasks
                    THEN [db.tasks[task_id] EXCEPT
                            !.messages = Append(@, message)]
                    ELSE [id |-> task_id, messages |-> <<message>>]
             db2 == [db EXCEPT !.tasks =
                        (task_id :> doc) @@ db.tasks]
         IN [db |-> db2, doc |-> Some(doc)]

TaskRepository_add_message_to_task(db, task_id, message) ==
    IF ~ObjectId_is_valid(task_id) \/ task_id \notin DOMAIN db.tasks
    THEN [db |-> db, doc |-> None]
    ELSE LET db2 == [db EXCEPT !.tasks[task_id].messages = Append(@, message)]
         IN [db |-> db2, doc |-> Some(db2.tasks[task_id])]

\* $set: the fields named by update_data take its values
Set(doc, update_data) ==
    [f \in DOMAIN doc |->
        IF f \in DOMAIN update_data THEN update_data[f] ELSE doc[f]]

\* BaseRepository.update on the tasks collection: find_one_and_update, $set
TaskRepository_update(db, task_id, update_data) ==
    IF ~ObjectId_is_valid(task_id) \/ task_id \notin DOMAIN db.tasks
    THEN [db |-> db, doc |-> None]
    ELSE LET db2 == [db EXCEPT !.tasks[task_id] = Set(@, update_data)]
         IN [db |-> db2, doc |-> Some(db2.tasks[task_id])]

\* TaskRepository.update_task_status: update_one, $set of the status;
\* returns the store and modified_count > 0
TaskRepository_update_task_status(db, task_id, status) ==
    IF ~ObjectId_is_valid(task_id) \/ task_id \notin DOMAIN db.tasks
    THEN [db |-> db, modified |-> FALSE]
    ELSE [db |-> [db EXCEPT !.tasks[task_id].status = status],
          modified |-> TRUE]

\* The greatest of a non-empty set of numbers
Max(S) == CHOOSE x \in S : \A y \in S : y <= x

\* TaskRepository.get_conversation_state: $match on the conversation and
\* on completed_at existing, $sort by completed_at descending, $limit 1;
\* an empty agent_state is falsy and gives None.
TaskRepository_get_conversation_state(db, conversation_id) ==
    IF ~ObjectId_is_valid(conversation_id) THEN None
    ELSE LET matched == {t \in DOMAIN db.tasks :
                            /\ db.tasks[t].conversation_id = conversation_id
                            /\ ~IsNone(db.tasks[t].completed_at)}
         IN IF matched = {} THEN None
            ELSE LET latest == Max({db.tasks[t].completed_at[1] : t \in matched})
                     first == CHOOSE t \in matched :
                                db.tasks[t].completed_at[1] = latest
                 IN IF db.tasks[first].agent_state # {}
                    THEN Some(db.tasks[first].agent_state)
                    ELSE None

\* BaseRepository.update on the conversations collection
ConversationRepository_update(db, conversation_id, update_is_active) ==
    IF \/ ~ObjectId_is_valid(conversation_id)
       \/ conversation_id \notin DOMAIN db.conversations
    THEN [db |-> db, doc |-> None]
    ELSE LET db2 == [db EXCEPT !.conversations[conversation_id].is_active =
                                    update_is_active[1]]
         IN [db |-> db2, doc |-> Some(db2.conversations[conversation_id])]

----------------------------------------------------------------------------
(* Calls: one record per request; pc is the next awaited store operation *)

NoCall == [op |-> "idle", user_id |-> "", conversation_id |-> NoneOid,
           path_conversation_id |-> NoneOid, task_id |-> NoneOid,
           message |-> <<>>, role |-> "", update |-> None,
           status |-> "", agent_state |-> {}, error_message |-> None,
           sid |-> 0, auth |-> None, payload |-> "",
           skip |-> 0, limit |-> 0,
           engine |-> "", emit_fault |-> "",
           cancelled |-> FALSE, trace |-> <<>>, targets |-> <<>>,
           pc |-> "idle", cid |-> NoneOid, task |-> None,
           outcome |-> "", data |-> None]

NewCall(op, user_id) == [NoCall EXCEPT !.op = op, !.user_id = user_id,
                                        !.pc = "start"]

Done(c, outcome, data) ==
    [c EXCEPT !.pc = "done", !.outcome = outcome, !.data = data]

IsDone(c) == c.pc = "done"

----------------------------------------------------------------------------
(* Conversation/Task manager: the service handlers *)

ConversationService_create_conversation(db, user_id, title) ==
    ConversationRepository_create(db,
        [user_id |-> user_id, title |-> title, task_ids |-> <<>>,
         is_active |-> TRUE])

\* An off-by-one in the truncation test: the ellipsis also follows a
\* message of exactly TitleLen characters.
CreateTaskTitle_EllipsisAtLimit(user_message) ==
    Prefix(user_message, TitleLen)
        \o (IF Len(user_message) >= TitleLen THEN Ellipsis ELSE <<>>)

\* title = user_message[:50] + ("..." if len(user_message) > 50 else "")
CreateTaskTitle(user_message) ==
    Prefix(user_message, TitleLen)
        \o (IF Len(user_message) > TitleLen THEN Ellipsis ELSE <<>>)

\* title = f"Soulcare: {user_message[:40]}" + ("..." if len > 40 else "")
SoulcareTitle(user_message) ==
    SoulcarePrefix \o Prefix(user_message, SoulcareTitleLen)
        \o (IF Len(user_message) > SoulcareTitleLen THEN Ellipsis ELSE <<>>)

\* task_dict of create_task
CreateTaskDict(c) ==
    [conversation_id |-> c.cid, user_id |-> c.user_id,
     user_message |-> c.message, status |-> "pending",
     completion_percentage |-> 0, agent_type |-> None,
     started_at |-> FALSE]

\* The agent task inserted as a plain task, to be started by a later write
SoulcareTaskDict_Pending(c) ==
    [conversation_id |-> c.cid, user_id |-> c.user_id,
     user_message |-> c.message, status |-> "pending",
     completion_percentage |-> 0, agent_type |-> None,
     started_at |-> FALSE]

\* task_dict of create_soulcare_task
SoulcareTaskDict(c) ==
    [conversation_id |-> c.cid, user_id |-> c.user_id,
     user_message |-> c.message, status |-> "in_progress",
     completion_percentage |-> 0, agent_type |-> Some("soulcare"),
     started_at |-> TRUE]

\* The store operations create_task and create_soulcare_task share:
\* the task insert, then the $addToSet on the conversation.
InsertTaskStep(db, c, task_dict) ==
    IF ~ObjectId_is_valid(c.cid)
    THEN [db |-> db, call |-> Done(c, "error", None)]   \* bson InvalidId
    ELSE LET r == TaskRepository_create(db, task_dict)
         IN [db |-> r.db,
             call |-> [c EXCEPT !.task = Some(r.doc), !.pc = "add_task"]]

AddTaskStep(db, c) ==
    [db |-> add_task_to_conversation(db, c.cid, c.task[1].id),
     call |-> Done(c, "ok", c.task)]

TaskService_create_task(db, c) ==
    CASE c.pc = "start" ->
            IF c.conversation_id = NoneOid
            THEN LET r == ConversationService_create_conversation(
                              db, c.user_id, CreateTaskTitle(c.message))
                 IN [db |-> r.db,
                     call |-> [c EXCEPT !.cid = r.doc.id, !.pc = "create"]]
            ELSE LET c2 == [c EXCEPT !.cid = c.conversation_id]
                 IN InsertTaskStep(db, c2, CreateTaskDict(c2))
      [] c.pc = "create" -> InsertTaskStep(db, c, CreateTaskDict(c))
      [] c.pc = "add_task" -> AddTaskStep(db, c)

TaskService_create_soulcare_task(db, c) ==
    CASE c.pc = "start" ->
            IF c.conversation_id = NoneOid
            THEN LET r == ConversationService_create_conversation(
                              db, c.user_id, SoulcareTitle(c.message))
                 IN [db |-> r.db,
                     call |-> [c EXCEPT !.cid = r.doc.id, !.pc = "create"]]
            ELSE LET c2 == [c EXCEPT !.cid = c.conversation_id]
                 IN InsertTaskStep(db, c2, SoulcareTaskDict(c2))
      [] c.pc = "create" -> InsertTaskStep(db, c, SoulcareTaskDict(c))
      [] c.pc = "add_task" -> AddTaskStep(db, c)

\* ChatService.process_message: create_task, then the response is built
\* from task.messages[0]; with no message user_message is None and
\* user_message.model_dump() raises AttributeError.
ChatService_process_message(db, c) ==
    LET r == TaskService_create_task(db, c)
    IN IF IsDone(r.call) /\ r.call.outcome = "ok"
       THEN LET task == r.call.data[1]
                user_message == IF task.messages # <<>>
                                THEN Some(task.messages[1]) ELSE None
            IN IF IsNone(user_message)
               THEN [db |-> r.db, call |-> Done(r.call, "error", None)]
               ELSE [db |-> r.db,
                     call |-> Done(r.call, "ok",
                        Some([task_id |-> task.id,
                              conversation_id |-> task.conversation_id,
                              user_message |-> user_message[1],
                              assistant_responses |-> <<>>]))]
       ELSE r

\* POST /chat/{conversation_id}/continue: the path id overrides the body's
continue_conversation(db, c) ==
    ChatService_process_message(
        db, [c EXCEPT !.conversation_id = c.path_conversation_id])

\* GET /tasks/{task_id}
get_task(db, c) ==
    LET task == get_user_task(db, c.task_id, c.user_id)
    IN [db |-> db,
        call |-> IF IsNone(task) THEN Done(c, "not_found", None)
                 ELSE Done(c, "ok", task)]

\* update_dict of update_task: the fields of TaskUpdate that are not None
UpdateDict(status, completion_percentage) ==
    (IF IsNone(status) THEN <<>> ELSE ("status" :> status[1]))
    @@ (IF IsNone(completion_percentage) THEN <<>>
        ELSE ("completion_percentage" :> completion_percentage[1]))

\* The store operations of update_task for a given TaskUpdate
UpdateTaskSteps(db, c, update_dict) ==
    CASE c.pc = "start" ->
            LET task == get_user_task(db, c.task_id, c.user_id)
            IN [db |-> db,
                call |-> IF IsNone(task) THEN Done(c, "not_found", None)
                         ELSE IF DOMAIN update_dict = {}
                         THEN Done(c, "ok", task)
                         ELSE [c EXCEPT !.task = task, !.pc = "update"]]
      [] c.pc = "update" ->
            LET r == TaskRepository_update(db, c.task_id, update_dict)
            IN [db |-> r.db,
                call |-> IF IsNone(r.doc) THEN Done(c, "not_found", None)
                         ELSE Done(c, "ok", r.doc)]

TaskService_update_task(db, c) ==
    UpdateTaskSteps(db, c, UpdateDict(c.update, None))

\* update_task with TaskUpdate(status="completed", completion_percentage=100)
TaskService_complete_task(db, c) ==
    UpdateTaskSteps(db, c, UpdateDict(Some("completed"), Some(100)))

TaskService_update_task_status(db, c) ==
    CASE c.pc = "start" ->
            LET task == get_user_task(db, c.task_id, c.user_id)
            IN [db |-> db,
                call |-> IF IsNone(task) THEN Done(c, "not_found", None)
                         ELSE [c EXCEPT !.task = task, !.pc = "update"]]
      [] c.pc = "update" ->
            LET r == TaskRepository_update_task_status(db, c.task_id, c.status)
            IN [db |-> r.db,
                call |-> IF r.modified THEN Done(c, "ok", None)
                         ELSE Done(c, "not_found", None)]

\* Python truthiness of an Optional[str]: None and "" are falsy
Truthy(error_message) == ~IsNone(error_message) /\ error_message[1] # <<>>

\* The error message stored without forcing the status: the caller's
\* status is written as given.
AgentStateUpdateDict_StatusAsGiven(agent_state, status, error_message, time) ==
    (IF Truthy(error_message)
     THEN ("error_message" :> error_message) ELSE <<>>)
    @@ (IF status = "completed"
        THEN ("completion_percentage" :> 100) ELSE <<>>)
    @@ [agent_state |-> agent_state, status |-> status,
        completed_at |-> Some(time)]

\* update_dict of update_task_with_agent_state
AgentStateUpdateDict(agent_state, status, error_message, time) ==
    (IF Truthy(error_message)
     THEN ("error_message" :> error_message) @@ ("status" :> "failed")
     ELSE <<>>)
    @@ (IF status = "completed"
        THEN ("completion_percentage" :> 100) ELSE <<>>)
    @@ [agent_state |-> agent_state, status |-> status,
        completed_at |-> Some(time)]

\* completed_at is datetime.now() read when the update is built; the
\* handler has one store operation and no ownership or status check.
TaskService_update_task_with_agent_state(db, c) ==
    LET r == TaskRepository_update(db, c.task_id,
                AgentStateUpdateDict(c.agent_state, c.status,
                                     c.error_message, db.now))
    IN [db |-> [r.db EXCEPT !.now = db.now + 1],
        call |-> IF IsNone(r.doc) THEN Done(c, "not_found", None)
                 ELSE Done(c, "ok", r.doc)]

\* Returns None both for a conversation of another user and for a
\* conversation with no saved state.
TaskService_get_conversation_state(db, c) ==
    CASE c.pc = "start" ->
            LET conversation ==
                    get_user_conversation(db, c.conversation_id, c.user_id)
            IN [db |-> db,
                call |-> IF IsNone(conversation) THEN Done(c, "ok", None)
                         ELSE [c EXCEPT !.pc = "state"]]
      [] c.pc = "state" ->
            [db |-> db,
             call |-> Done(c, "ok",
                    TaskRepository_get_conversation_state(
                        db, c.conversation_id))]

TaskService_delete_task(db, c) ==
    CASE c.pc = "start" ->
            LET task == get_user_task(db, c.task_id, c.user_id)
            IN [db |-> db,
                call |-> IF IsNone(task) THEN Done(c, "not_found", None)
                         ELSE [c EXCEPT !.task = task, !.pc = "remove"]]
      [] c.pc = "remove" ->
            [db |-> remove_task_from_conversation(
                        db, c.task[1].conversation_id, c.task_id),
             call |-> [c EXCEPT !.pc = "delete"]]
      [] c.pc = "delete" ->
            LET r == delete_user_task(db, c.task_id, c.user_id)
            IN [db |-> r.db,
                call |-> IF r.deleted THEN Done(c, "ok", None)
                         ELSE Done(c, "not_found", None)]

\* The first message of the returned document taken as the new one
NewestMessage_First(task) == task.messages[1]

\* updated_task.messages[-1]: the last message of the document the
\* push returned
NewestMessage(task) == task.messages[Len(task.messages)]

\* The append done as read-modify-write: the handler writes back the
\* message list it read at the ownership check, plus the new message.
TaskService_add_message_to_task_ReadModifyWrite(db, c) ==
    CASE c.pc = "start" ->
            LET task == get_user_task(db, c.task_id, c.user_id)
            IN [db |-> db,
                call |-> IF IsNone(task) THEN Done(c, "not_found", None)
                         ELSE [c EXCEPT !.task = task, !.pc = "push"]]
      [] c.pc = "push" ->
            LET message == [role |-> c.role, content |-> c.message]
            IN IF c.task_id \notin DOMAIN db.tasks
               THEN [db |-> db, call |-> Done(c, "not_found", None)]
               ELSE [db |-> [db EXCEPT !.tasks[c.task_id].messages =
                                    Append(c.task[1].messages, message)],
                     call |-> Done(c, "ok", Some(message))]

TaskService_add_message_to_task(db, c) ==
    CASE c.pc = "start" ->
            LET task == get_user_task(db, c.task_id, c.user_id)
            IN [db |-> db,
                call |-> IF IsNone(task) THEN Done(c, "not_found", None)
                         ELSE [c EXCEPT !.task = task, !.pc = "push"]]
      [] c.pc = "push" ->
            LET message == [role |-> c.role, content |-> c.message]
                r == TaskRepository_add_message_to_task(db, c.task_id, message)
            IN [db |-> r.db,
                call |-> IF IsNone(r.doc) THEN Done(c, "not_found", None)
                         ELSE Done(c, "ok", Some(NewestMessage(r.doc[1])))]

\* The body passed to the service whatever its role
add_message_to_task_AnyRole(db, c) ==
    TaskService_add_message_to_task(db, c)

\* POST /tasks/{task_id}/messages: the body is validated against the
\* AddMessageToTask schema (role: Literal["assistant", "system"]) before
\* the handler body runs; a body that fails is answered 422.
add_message_to_task(db, c) ==
    IF c.pc = "start" /\ c.role \notin AppendRoles
    THEN [db |-> db, call |-> Done(c, "validation_error", None)]
    ELSE TaskService_add_message_to_task(db, c)

TaskService_get_task_messages(db, c) ==
    LET task == get_user_task(db, c.task_id, c.user_id)
    IN [db |-> db,
        call |-> IF IsNone(task) THEN Done(c, "not_found", None)
                 ELSE Done(c, "ok", Some(task[1].messages))]

\* POST /conversations
create_conversation(db, c) ==
    LET r == ConversationService_create_conversation(db, c.user_id, c.message)
    IN [db |-> r.db, call |-> Done(c, "ok", Some(r.doc))]

\* GET /conversations/{conversation_id}
get_conversation(db, c) ==
    LET conversation == get_user_conversation(db, c.conversation_id, c.user_id)
    IN [db |-> db,
        call |-> IF IsNone(conversation) THEN Done(c, "not_found", None)
                 ELSE Done(c, "ok", conversation)]

ConversationService_update_conversation(db, c) ==
    CASE c.pc = "start" ->
            LET conversation ==
                    get_user_conversation(db, c.conversation_id, c.user_id)
            IN [db |-> db,
                call |-> IF IsNone(conversation)
                         THEN Done(c, "not_found", None)
                         ELSE IF IsNone(c.update)
                         THEN Done(c, "ok", conversation)
                         ELSE [c EXCEPT !.pc = "update"]]
      [] c.pc = "update" ->
            LET r == ConversationRepository_update(
                        db, c.conversation_id, c.update)
            IN [db |-> r.db,
                call |-> IF IsNone(r.doc) THEN Done(c, "not_found", None)
                         ELSE Done(c, "ok", r.doc)]

ConversationService_delete_conversation(db, c) ==
    CASE c.pc = "start" ->
            LET conversation ==
                    get_user_conversation(db, c.conversation_id, c.user_id)
            IN [db |-> db,
                call |-> IF IsNone(conversation)
                         THEN Done(c, "not_found", None)
                         ELSE [c EXCEPT !.pc = "delete_tasks"]]
      [] c.pc = "delete_tasks" ->
            [db |-> delete_conversation_tasks(db, c.conversation_id),
             call |-> [c EXCEPT !.pc = "delete"]]
      [] c.pc = "delete" ->
            LET r == delete_user_conversation(db, c.conversation_id, c.user_id)
            IN [db |-> r.db,
                call |-> IF r.deleted THEN Done(c, "ok", None)
                         ELSE Done(c, "not_found", None)]

----------------------------------------------------------------------------
(* List endpoints *)

\* The limit clamped from below at 0
CommonQueryParams_ZeroLimit(skip, limit) ==
    [skip |-> Max({0, skip}), limit |-> Min(100, Max({0, limit}))]

\* CommonQueryParams.__init__
CommonQueryParams(skip, limit) ==
    [skip |-> Max({0, skip}), limit |-> Min(100, Max({1, limit}))]

\* The ids in S, newest first (sort created_at, -1)
Descending(S) ==
    [i \in 1..Cardinality(S) |->
        CHOOSE x \in S : Cardinality({y \in S : y > x}) = i - 1]

\* BaseRepository.find: cursor.skip(skip).limit(limit)
Page(seq, skip, limit) == SubSeq(seq, skip + 1, Min(Len(seq), skip + limit))

\* GET /tasks: the page of the caller's tasks, the total, and the skip
\* and limit that were used
list_tasks(db, c) ==
    LET params == CommonQueryParams(c.skip, c.limit)
        ids == Descending({t \in DOMAIN db.tasks :
                              db.tasks[t].user_id = c.user_id})
        page == Page(ids, params.skip, params.limit)
    IN [db |-> db,
        call |-> Done(c, "ok",
                      Some([tasks |-> [i \in 1..Len(page) |->
                                          db.tasks[page[i]]],
                            total |-> Len(ids),
                            skip |-> params.skip,
                            limit |-> params.limit]))]

----------------------------------------------------------------------------
(* Streaming session manager: the Socket.IO event handlers *)

\* dict.get(k), dict.pop(k, None) and d[k] = v
Get(d, k) == IF k \in DOMAIN d THEN Some(d[k]) ELSE None
Drop(d, k) == [x \in (DOMAIN d) \ {k} |-> d[x]]
Put(d, k, v) == [x \in (DOMAIN d) \cup {k} |-> IF x = k THEN v ELSE d[x]]

\* The room of one connection, named by its sid, which the server enters
\* the connection into when it connects
SidRoom(sid) == <<"sid", sid>>

\* An event sent to the room of the caller's user
EmitRoom_User(c) == UserRoom(c.user_id)

\* room=sid, the target of every emit of the handlers and of the adapter
EmitRoom(c) == SidRoom(c.sid)

\* sio.emit(event, ..., room=sid): the events a handler sends are kept in
\* the call's trace, and the rooms they are sent to in targets; the
\* terminal writes of a run are kept in the trace too, with no target
Emit(c, event) ==
    [c EXCEPT !.trace = Append(@, event),
              !.targets = Append(@, IF event \in {"write_completed",
                                                  "write_failed",
                                                  "write_state"}
                                    THEN None ELSE EmitRoom(c))]

\* verify_token: the payload's "sub", or None when jwt.decode raises
verify_token(token) == IF token = BadToken THEN None ELSE Some(token)

\* Every user id found, and active
get_user_by_id_Active(user_id) == Some([id |-> user_id, is_active |-> TRUE])

\* AuthService.get_user_by_id
get_user_by_id(user_id) ==
    IF user_id \in ActiveUsers
    THEN Some([id |-> user_id, is_active |-> TRUE])
    ELSE IF user_id \in InactiveUsers
         THEN Some([id |-> user_id, is_active |-> FALSE])
         ELSE None

\* The server's own room of every connected sid (room None of the
\* namespace), entered before the connect handler runs
is_connected(db, sid) == <<sid, None>> \in db.rooms

\* sio.enter_room: raises for a sid that is not connected
enter_room(db, sid, room) ==
    IF is_connected(db, sid)
    THEN [db |-> [db EXCEPT !.rooms = @ \cup {<<sid, room>>}],
          raised |-> FALSE]
    ELSE [db |-> db, raised |-> TRUE]

\* The session entry kept at disconnection
disconnect_KeepSession(db, sid) == db

\* The disconnect event handler
disconnect(db, sid) ==
    LET user_id == Get(db.user_sessions, sid)
        db1 == [db EXCEPT !.user_sessions = Drop(@, sid)]
    IN IF IsNone(user_id) THEN db1
       ELSE LET room_name == Get(db1.user_rooms, user_id[1])
                db2 == [db1 EXCEPT !.user_rooms = Drop(@, user_id[1])]
            IN IF IsNone(room_name) THEN db2
               ELSE [db2 EXCEPT !.rooms = @ \ {<<sid, room_name[1]>>}]

\* Disconnection as the Socket.IO server performs it: the disconnect
\* handler runs, then the server removes the sid from every room.
sio_disconnect(db, sid) ==
    LET db1 == disconnect(db, sid)
    IN [db1 EXCEPT !.rooms = {m \in @ : m[1] # sid}]

\* The connect event handler
connect(db, c) ==
    LET refused == [db |-> sio_disconnect(db, c.sid),
                    call |-> Done(c, "refused", None)]
    IN IF IsNone(c.auth) THEN refused
       ELSE LET payload == verify_token(c.auth[1])
            IN IF IsNone(payload) THEN refused
               ELSE LET user_id == payload[1]
                        user == get_user_by_id(user_id)
                    IN IF IsNone(user) \/ ~user[1].is_active THEN refused
                       ELSE [db |-> [db EXCEPT
                                !.user_sessions = Put(@, c.sid, user_id),
                                !.user_rooms =
                                    Put(@, user_id, UserRoom(user_id)),
                                !.rooms = @ \cup
                                    {<<c.sid, None>>,
                                     <<c.sid, SidRoom(c.sid)>>,
                                     <<c.sid, UserRoom(user_id)>>}],
                             call |-> Done(Emit(c, "connected"), "ok", None)]

\* The disconnect of a client, as a call
client_disconnect(db, c) ==
    [db |-> sio_disconnect(db, c.sid), call |-> Done(c, "ok", None)]

\* The join_conversation event handler: the session check and the
\* conversation lookup, then the room is entered
join_conversation(db, c) ==
    LET failed == [db |-> db, call |-> Done(Emit(c, "error"), "error", None)]
    IN CASE c.pc = "start" ->
              LET user_id == Get(db.user_sessions, c.sid)
              IN IF IsNone(user_id) THEN failed
                 ELSE IF c.conversation_id = NoneOid THEN failed
                 ELSE IF IsNone(get_user_conversation(
                                  db, c.conversation_id, user_id[1]))
                 THEN failed
                 ELSE [db |-> db,
                       call |-> [c EXCEPT !.user_id = user_id[1],
                                          !.pc = "enter"]]
         [] c.pc = "enter" ->
              LET r == enter_room(db, c.sid,
                                  ConversationRoom(c.conversation_id))
              IN IF r.raised THEN failed
                 ELSE [db |-> r.db,
                       call |-> Done(Emit(c, "joined_conversation"),
                                     "ok", None)]

\* The leave_conversation event handler: no session and no ownership check
leave_conversation(db, c) ==
    IF c.conversation_id = NoneOid
    THEN [db |-> db, call |-> Done(c, "ok", None)]
    ELSE [db |-> [db EXCEPT !.rooms = @ \
                    {<<c.sid, ConversationRoom(c.conversation_id)>>}],
          call |-> Done(Emit(c, "left_conversation"), "ok", None)]

\* str.strip(): the message without its leading and trailing blanks
Strip_Nothing(m) == m

Strip(m) ==
    LET solid == {i \in 1..Len(m) : m[i] # " "}
    IN IF solid = {} THEN <<>>
       ELSE LET first == CHOOSE i \in solid : \A j \in solid : i <= j
                final == CHOOSE i \in solid : \A j \in solid : j <= i
            IN SubSeq(m, first, final)

\* The data of an event that is not a dict or has no 'message' key
InvalidFormat(c) == c.payload # "dict"

\* process_message inside the chat handler's try: an exception is
\* answered with an error event
ChatRun(db, c) ==
    LET r == ChatService_process_message(db, c)
    IN IF IsDone(r.call) /\ r.call.outcome = "error"
       THEN [r EXCEPT !.call = Emit(@, "error")]
       ELSE r

\* The message processed without the session check
chat_Unauthenticated(db, c) == ChatRun(db, c)

\* The chat event handler
chat(db, c) ==
    IF c.pc = "start"
    THEN LET user_id == Get(db.user_sessions, c.sid)
         IN IF IsNone(user_id)
            THEN [db |-> db,
                  call |-> Done(Emit(c, "error"), "not_authenticated", None)]
            ELSE IF InvalidFormat(c) \/ Strip(c.message) = <<>>
            THEN [db |-> db,
                  call |-> Done(Emit(c, "error"), "invalid", None)]
            ELSE ChatRun(db, [c EXCEPT !.user_id = user_id[1],
                                       !.message = Strip(c.message)])
    ELSE ChatRun(db, c)

----------------------------------------------------------------------------
(* The agent chat event: task creation, the engine's run, the terminal *)
(* write                                                               *)

\* The blobs the handlers store when no team state was saved
SaveStateError == {<<"error", 1>>}    \* SoulcareTeam.save_state caught
TeamFailed == {<<"error", 2>>}       \* "Soulcare team failed"

\* str(e) of the exception the engine raises
EngineError(engine) == IF engine = "raise_empty" THEN <<>> ELSE Msg(1)

\* The agent state saved without the status
TerminalWrite_StateOnly(db, c, agent_state, status, error_message) ==
    LET r == TaskRepository_update(db, c.task_id,
                                   [agent_state |-> agent_state])
    IN [db |-> [r.db EXCEPT !.now = db.now + 1],
        call |-> Emit(c, "write_state")]

\* The write of a terminal status: update_task_with_agent_state, recorded
\* in the trace of the call with the status it stores
TerminalWrite(db, c, agent_state, status, error_message) ==
    LET d == AgentStateUpdateDict(agent_state, status, error_message, db.now)
        r == TaskRepository_update(db, c.task_id, d)
    IN [db |-> [r.db EXCEPT !.now = db.now + 1],
        call |-> Emit(c, IF d.status = "completed" THEN "write_completed"
                         ELSE "write_failed")]

\* run_conversation_with_socket: the events sent while the engine runs,
\* and in c.status / c.error_message the result dict it returns
\* ("success": True, or "error": str(e)).  A cancelled token makes
\* run_stream raise CancelledError, which no except clause of the adapter
\* or of the handler catches.
run_conversation_with_socket(c) ==
    CASE c.engine = "cancelled_error" ->
            Done(Emit(c, "stream"), "cancelled", None)
      [] c.engine \in {"success", "save_error"} ->
            [Emit(Emit(c, "stream"), "task_message_complete") EXCEPT
                !.status = "completed", !.error_message = None, !.pc = "save"]
      [] OTHER ->
            [Emit(Emit(c, "stream"), "task_message_error") EXCEPT
                !.status = "failed",
                !.error_message = Some(EngineError(c.engine)),
                !.pc = "save"]

\* Steps 2 and 3 of the handler, and its except clauses
AgentRun(db, c) ==
    CASE c.pc = "run" ->
            IF c.engine = "no_client"
            THEN \* get_autogen_llm_client raises RuntimeError
                 [db |-> db,
                  call |-> [c EXCEPT !.error_message = Some(Msg(1)),
                                     !.pc = "fail"]]
            ELSE [db |-> db, call |-> run_conversation_with_socket(c)]
      [] c.pc = "save" ->
            \* save_state, the terminal write, then task_updated; when
            \* that emit raises, the except clause calls
            \* update_task_with_agent_state with a keyword it does not
            \* have (TypeError), which the outer clause handles
            LET agent_state == IF c.engine = "save_error"
                               THEN SaveStateError ELSE State(1)
                r == TerminalWrite(db, c, agent_state, c.status,
                                   c.error_message)
            IN IF c.emit_fault = "task_updated"
               THEN [db |-> r.db,
                     call |-> [r.call EXCEPT !.error_message = Some(Msg(1)),
                                             !.pc = "fail"]]
               ELSE [db |-> r.db,
                     call |-> Done(Emit(r.call, "task_updated"), "ok", None)]
      [] c.pc = "fail" ->
            LET r == TerminalWrite(db, c, TeamFailed, "failed",
                                   c.error_message)
            IN [db |-> r.db,
                call |-> Done(Emit(r.call, "error"), "failed", None)]

\* Step 1: create_soulcare_task and the task_created event, in one try
AgentCreate(db, c) ==
    LET r == TaskService_create_soulcare_task(db, c)
    IN IF ~IsDone(r.call) THEN r
       ELSE IF r.call.outcome # "ok" \/ c.emit_fault = "task_created"
       THEN [r EXCEPT !.call = Done(Emit(r.call, "error"), "error", None)]
       ELSE [r EXCEPT !.call = [Emit(r.call, "task_created") EXCEPT
                                    !.task_id = r.call.data[1].id,
                                    !.pc = "run", !.outcome = "",
                                    !.data = None]]

\* The soulcare_chat event handler
soulcare_chat(db, c) ==
    CASE c.pc = "start" ->
            LET user_id == Get(db.user_sessions, c.sid)
            IN IF IsNone(user_id)
               THEN [db |-> db,
                     call |-> Done(Emit(c, "error"),
                                   "not_authenticated", None)]
               ELSE IF InvalidFormat(c) \/ Strip(c.message) = <<>>
               THEN [db |-> db,
                     call |-> Done(Emit(c, "error"), "invalid", None)]
               ELSE AgentCreate(db, [c EXCEPT !.user_id = user_id[1],
                                              !.message = Strip(c.message)])
      [] c.pc \in {"create", "add_task"} -> AgentCreate(db, c)
      [] OTHER -> AgentRun(db, c)

\* cancel_conversation: the token of a run is cancelled; the engine is
\* affected only while it runs
cancel_conversation(c) ==
    IF c.pc = "run" /\ c.engine # "no_client"
    THEN [c EXCEPT !.cancelled = TRUE, !.engine = "cancelled_error"]
    ELSE [c EXCEPT !.cancelled = TRUE]

\* One step of the handler of event c
EventStep(db, c) ==
    CASE c.op = "connect" -> connect(db, c)
      [] c.op = "disconnect" -> client_disconnect(db, c)
      [] c.op = "join_conversation" -> join_conversation(db, c)
      [] c.op = "leave_conversation" -> leave_conversation(db, c)
      [] c.op = "chat" -> chat(db, c)
      [] c.op = "agent_chat" -> soulcare_chat(db, c)

\* One store operation of the handler of call c
Step(db, c) ==
    CASE c.op = "create_task" -> TaskService_create_task(db, c)
      [] c.op = "send_message" -> ChatService_process_message(db, c)
      [] c.op = "continue_conversation" -> continue_conversation(db, c)
      [] c.op = "soulcare_chat" -> TaskService_create_soulcare_task(db, c)
      [] c.op = "get_task" -> get_task(db, c)
      [] c.op = "update_task" -> TaskService_update_task(db, c)
      [] c.op = "delete_task" -> TaskService_delete_task(db, c)
      [] c.op = "add_message_to_task" -> add_message_to_task(db, c)
      [] c.op = "complete_task" -> TaskService_complete_task(db, c)
      [] c.op = "update_task_status" -> TaskService_update_task_status(db, c)
      [] c.op = "update_task_with_agent_state" ->
            TaskService_update_task_with_agent_state(db, c)
      [] c.op = "get_conversation_state" ->
            TaskService_get_conversation_state(db, c)

      [] c.op = "get_task_messages" -> TaskService_get_task_messages(db, c)
      [] c.op = "create_conversation" -> create_conversation(db, c)
      [] c.op = "get_conversation" -> get_conversation(db, c)
      [] c.op = "update_conversation" ->
            ConversationService_update_conversation(db, c)
      [] c.op = "delete_conversation" ->
            ConversationService_delete_conversation(db, c)

\* The handler of call c run to completion with no other request between
\* its store operations
RECURSIVE Run(_, _)
Run(db, c) ==
    LET r == Step(db, c)
    IN IF IsDone(r.call) THEN r ELSE Run(r.db, r.call)

RECURSIVE RunEvent(_, _)
\* The handler of an event run to its end with nothing interleaved
RunEvent(db, c) ==
    LET r == EventStep(db, c)
    IN IF IsDone(r.call) THEN r ELSE RunEvent(r.db, r.call)

----------------------------------------------------------------------------
(* Requests *)

\* The ids a request can name: those handed out so far, and the ids of
\* nothing that the workload includes (GhostOid, InvalidOid)
ConvIdArgs ==
    IF env.live_only THEN DOMAIN conversations
    ELSE (1..(next_conversation_oid - 1)) \cup env.bad_ids
TaskIdArgs == (1..(next_task_oid - 1)) \cup env.bad_ids

ConversationUpdates == {None, Some(FALSE)}

\* Calls that have created their conversation and not yet their task
PendingTaskInserts ==
    Cardinality({s \in 1..MaxSlots : calls[s].pc = "create"})

PendingAppends(t) ==
    Cardinality({s \in 1..MaxSlots : /\ calls[s].op = "add_message_to_task"
                                     /\ calls[s].task_id = t})

CanInsert(cid) ==
    /\ next_task_oid + PendingTaskInserts <= env.max_tasks
    /\ cid = NoneOid => next_conversation_oid <= env.max_convs

CanAppend(t) ==
    t \in DOMAIN tasks =>
        Len(tasks[t].messages) + PendingAppends(t) < env.max_appends

LogAppend(log, t, message) ==
    IF t \in DOMAIN log
    THEN [log EXCEPT ![t] = Append(@, message)]
    ELSE log @@ (t :> <<message>>)

AppendsTo(t) ==
    IF t \in DOMAIN completed_appends THEN completed_appends[t] ELSE <<>>

Apply(s, r) ==
    /\ conversations' = r.db.conversations
    /\ tasks' = r.db.tasks
    /\ next_conversation_oid' = r.db.next_conversation_oid
    /\ next_task_oid' = r.db.next_task_oid
    /\ now' = r.db.now
    /\ user_sessions' = r.db.user_sessions
    /\ user_rooms' = r.db.user_rooms
    /\ rooms' = r.db.rooms
    /\ calls' = [calls EXCEPT ![s] = IF IsDone(r.call) THEN NoCall ELSE r.call]
    /\ last' = r.call
    /\ completed_appends' =
          IF /\ r.call.op = "add_message_to_task"
             /\ IsDone(r.call) /\ r.call.outcome = "ok"
          THEN LogAppend(completed_appends, r.call.task_id, r.call.data[1])
          ELSE completed_appends
    /\ env' = env

\* A request arrives in a free slot and runs to its first store operation
Begin(s, c) ==
    /\ calls[s] = NoCall
    /\ Apply(s, Step(DB, c))

\* A suspended handler resumes with its next store operation
Resume(s, op) ==
    /\ calls[s].op = op
    /\ Apply(s, Step(DB, calls[s]))

CreateTask ==
    \E s \in 1..env.slots :
        \/ \E u \in env.users, cid \in ConvIdArgs \cup {NoneOid},
              m \in env.user_messages :
                /\ CanInsert(cid)
                /\ Begin(s, [NewCall("create_task", u) EXCEPT
                                !.conversation_id = cid, !.message = m])
        \/ Resume(s, "create_task")

SendMessage ==
    \E s \in 1..env.slots :
        \/ \E u \in env.users, cid \in ConvIdArgs \cup {NoneOid},
              m \in env.user_messages :
                /\ CanInsert(cid)
                /\ Begin(s, [NewCall("send_message", u) EXCEPT
                                !.conversation_id = cid, !.message = m])
        \/ Resume(s, "send_message")

ContinueConversation ==
    \E s \in 1..env.slots :
        \/ \E u \in env.users, cid \in ConvIdArgs,
              body \in {NoneOid} \cup env.bad_ids, m \in env.user_messages :
                /\ CanInsert(cid)
                /\ Begin(s, [NewCall("continue_conversation", u) EXCEPT
                                !.path_conversation_id = cid,
                                !.conversation_id = body, !.message = m])
        \/ Resume(s, "continue_conversation")

SoulcareChat ==
    \E s \in 1..env.slots :
        \/ \E u \in env.users, cid \in ConvIdArgs \cup {NoneOid},
              m \in env.soulcare_messages :
                /\ CanInsert(cid)
                /\ Begin(s, [NewCall("soulcare_chat", u) EXCEPT
                                !.conversation_id = cid, !.message = m])
        \/ Resume(s, "soulcare_chat")

GetTask ==
    \E s \in 1..env.slots, u \in env.users, t \in TaskIdArgs :
        Begin(s, [NewCall("get_task", u) EXCEPT !.task_id = t])

UpdateTask ==
    \E s \in 1..env.slots :
        \/ \E u \in env.users, t \in TaskIdArgs, upd \in env.task_updates :
                Begin(s, [NewCall("update_task", u) EXCEPT
                                !.task_id = t, !.update = upd])
        \/ Resume(s, "update_task")

DeleteTask ==
    \E s \in 1..env.slots :
        \/ \E u \in env.users, t \in TaskIdArgs :
                Begin(s, [NewCall("delete_task", u) EXCEPT !.task_id = t])
        \/ Resume(s, "delete_task")

AddMessageToTask ==
    \E s \in 1..env.slots :
        \/ \E u \in env.users, t \in TaskIdArgs, role \in env.roles,
              m \in env.contents :
                /\ CanAppend(t)
                /\ Begin(s, [NewCall("add_message_to_task", u) EXCEPT
                                !.task_id = t, !.role = role, !.message = m])
        \/ Resume(s, "add_message_to_task")

GetTaskMessages ==
    \E s \in 1..env.slots, u \in env.users, t \in TaskIdArgs :
        Begin(s, [NewCall("get_task_messages", u) EXCEPT !.task_id = t])

CompleteTask ==
    \E s \in 1..env.slots :
        \/ \E u \in env.users, t \in TaskIdArgs :
                /\ env.statuses # {}
                /\ Begin(s, [NewCall("complete_task", u) EXCEPT !.task_id = t])
        \/ Resume(s, "complete_task")

UpdateTaskStatus ==
    \E s \in 1..env.slots :
        \/ \E u \in env.users, t \in TaskIdArgs, st \in env.statuses :
                Begin(s, [NewCall("update_task_status", u) EXCEPT
                                !.task_id = t, !.status = st])
        \/ Resume(s, "update_task_status")

\* The terminal write of an agent run; the caller is the server itself
UpdateTaskState ==
    \E s \in 1..env.slots, t \in TaskIdArgs, st \in env.final_statuses,
       blob \in env.agent_states, err \in env.error_messages :
        /\ now <= env.max_writes
        /\ Begin(s, [NewCall("update_task_with_agent_state", "") EXCEPT
                        !.task_id = t, !.status = st,
                        !.agent_state = blob, !.error_message = err])

GetResumableState ==
    \E s \in 1..env.slots :
        \/ \E u \in env.users, cid \in ConvIdArgs :
                /\ env.agent_states # {}
                /\ Begin(s, [NewCall("get_conversation_state", u) EXCEPT
                                !.conversation_id = cid])
        \/ Resume(s, "get_conversation_state")

\* GET /tasks with skip and limit values below, inside and above the
\* clamped ranges
ListTasks ==
    \E s \in 1..env.slots, u \in env.users,
       skip \in {0 - 5, 0, 1, 2},
       limit \in {0 - 1, 0, 1, 2, 20, 100, 101, 500} :
        /\ calls[s] = NoCall
        /\ Apply(s, list_tasks(DB, [NewCall("list_tasks", u) EXCEPT
                                        !.skip = skip, !.limit = limit]))

\* An event arrives in a free slot and its handler runs to its first await
BeginEvent(s, c) ==
    /\ calls[s] = NoCall
    /\ Apply(s, EventStep(DB, c))

\* A suspended event handler resumes
ResumeEvent(s, op) ==
    /\ calls[s].op = op
    /\ Apply(s, EventStep(DB, calls[s]))

\* A new connection takes a sid that no connection and no handler holds
Connect ==
    \E s \in 1..env.slots, sid \in env.sids, auth \in env.auths :
        /\ ~is_connected(DB, sid)
        /\ \A s2 \in 1..MaxSlots : calls[s2].sid # sid
        /\ BeginEvent(s, [NewCall("connect", "") EXCEPT
                        !.sid = sid, !.auth = auth])

Disconnect ==
    \E s \in 1..env.slots, sid \in env.sids :
        /\ is_connected(DB, sid)
        /\ BeginEvent(s, [NewCall("disconnect", "") EXCEPT !.sid = sid])

JoinConversation ==
    \E s \in 1..env.slots :
        \/ \E sid \in env.sids, cid \in ConvIdArgs \cup {NoneOid} :
                BeginEvent(s, [NewCall("join_conversation", "") EXCEPT
                                !.sid = sid, !.conversation_id = cid])
        \/ ResumeEvent(s, "join_conversation")

LeaveConversation ==
    \E s \in 1..env.slots, sid \in env.sids,
       cid \in ConvIdArgs \cup {NoneOid} :
        BeginEvent(s, [NewCall("leave_conversation", "") EXCEPT
                        !.sid = sid, !.conversation_id = cid])

\* Event data the handlers reject: not a dict, no 'message' key, an empty
\* message, a message of blanks
Malformed ==
    {[payload |-> "not_dict", message |-> <<>>],
     [payload |-> "no_message", message |-> <<>>],
     [payload |-> "dict", message |-> <<>>],
     [payload |-> "dict", message |-> <<" ", " ">>]}

\* A message as a client sends it, with blanks around it
Padded(m) == <<" ">> \o m \o <<" ">>

Chat ==
    \E s \in 1..env.slots :
        \/ \E sid \in env.sids, cid \in ConvIdArgs \cup {NoneOid},
              m \in env.user_messages :
                /\ CanInsert(cid)
                /\ BeginEvent(s, [NewCall("chat", "") EXCEPT
                                !.sid = sid, !.conversation_id = cid,
                                !.payload = "dict", !.message = Padded(m)])
        \/ \E sid \in env.sids, d \in Malformed :
                BeginEvent(s, [NewCall("chat", "") EXCEPT
                                !.sid = sid, !.payload = d.payload,
                                !.message = d.message])
        \/ ResumeEvent(s, "chat")

AgentChat ==
    \E s \in 1..env.slots :
        \/ \E sid \in env.sids, cid \in ConvIdArgs \cup {NoneOid},
              m \in env.soulcare_messages,
              engine \in env.engines, emit_fault \in env.emit_faults :
                /\ CanInsert(cid)
                /\ BeginEvent(s, [NewCall("agent_chat", "") EXCEPT
                                !.sid = sid, !.conversation_id = cid,
                                !.payload = "dict", !.message = Padded(m),
                                !.engine = engine,
                                !.emit_fault = emit_fault])
        \/ \E sid \in env.sids, d \in Malformed :
                BeginEvent(s, [NewCall("agent_chat", "") EXCEPT
                                !.sid = sid, !.payload = d.payload,
                                !.message = d.message,
                                !.emit_fault = "none"])
        \/ ResumeEvent(s, "agent_chat")

\* The cancellation signal reaches a run that has not been cancelled
Cancel ==
    \E s \in 1..env.slots :
        /\ calls[s].op = "agent_chat"
        /\ ~calls[s].cancelled
        /\ calls' = [calls EXCEPT ![s] = cancel_conversation(@)]
        /\ last' = [NoCall EXCEPT !.op = "cancel", !.sid = calls[s].sid,
                                   !.task_id = calls[s].task_id]
        /\ UNCHANGED <<conversations, tasks, next_conversation_oid,
                       next_task_oid, completed_appends, now,
                       user_sessions, user_rooms, rooms, env>>

CreateConversation ==
    \E s \in 1..env.slots, u \in env.users, title \in {Msg(1)} :
        /\ next_conversation_oid <= env.max_convs
        /\ Begin(s, [NewCall("create_conversation", u) EXCEPT
                        !.message = title])

GetConversation ==
    \E s \in 1..env.slots, u \in env.users, cid \in ConvIdArgs :
        Begin(s, [NewCall("get_conversation", u) EXCEPT
                        !.conversation_id = cid])

UpdateConversation ==
    \E s \in 1..env.slots :
        \/ \E u \in env.users, cid \in ConvIdArgs, upd \in ConversationUpdates :
                Begin(s, [NewCall("update_conversation", u) EXCEPT
                                !.conversation_id = cid, !.update = upd])
        \/ Resume(s, "update_conversation")

DeleteConversation ==
    \E s \in 1..env.slots :
        \/ \E u \in env.users, cid \in ConvIdArgs :
                Begin(s, [NewCall("delete_conversation", u) EXCEPT
                                !.conversation_id = cid])
        \/ Resume(s, "delete_conversation")

----------------------------------------------------------------------------
(* Specifications *)

InitStore ==
    /\ conversations = <<>>
    /\ tasks = <<>>
    /\ next_conversation_oid = 1
    /\ next_task_oid = 1
    /\ calls = [s \in 1..MaxSlots |-> NoCall]
    /\ last = NoCall
    /\ completed_appends = <<>>
    /\ now = 1
    /\ user_sessions = <<>>
    /\ user_rooms = <<>>
    /\ rooms = {}

\* Creation, association and deletion; one request at a time (every
\* handler runs to completion before the next request is served).
Init ==
    /\ InitStore
    /\ env = [slots |-> 1, users |-> Users,
              bad_ids |-> {GhostOid, InvalidOid},
              max_tasks |-> MaxTasks, max_convs |-> MaxConvs,
              max_appends |-> 0,
              user_messages |-> {Msg(TitleLen + 1)},
              soulcare_messages |-> {Msg(SoulcareTitleLen + 1)},
              contents |-> {}, roles |-> {}, task_updates |-> {},
              statuses |-> {}, agent_states |-> {},
              final_statuses |-> {}, error_messages |-> {},
              max_writes |-> 0,
              sids |-> {}, auths |-> {}, engines |-> {},
              emit_faults |-> {},
              live_only |-> FALSE]

Next ==
    \/ CreateTask
    \/ SendMessage
    \/ ContinueConversation
    \/ SoulcareChat
    \/ DeleteTask
    \/ DeleteConversation

Spec == Init /\ [][Next]_vars

\* Conversation titles: user messages of one character, of exactly
\* TitleLen characters and of one more; one request at a time.
InitTitle ==
    /\ InitStore
    /\ env = [slots |-> 1, users |-> Users,
              bad_ids |-> {GhostOid, InvalidOid},
              max_tasks |-> MaxTasks, max_convs |-> MaxConvs,
              max_appends |-> 0,
              user_messages |-> {Msg(1), Msg(TitleLen), Msg(TitleLen + 1)},
              soulcare_messages |-> {},
              contents |-> {}, roles |-> {}, task_updates |-> {},
              statuses |-> {}, agent_states |-> {},
              final_statuses |-> {}, error_messages |-> {},
              max_writes |-> 0,
              sids |-> {}, auths |-> {}, engines |-> {},
              emit_faults |-> {},
              live_only |-> FALSE]

NextTitle ==
    \/ CreateTask
    \/ DeleteTask
    \/ DeleteConversation

SpecTitle == InitTitle /\ [][NextTitle]_vars

\* Access by owner and non-owner: every read, update, delete and append on
\* tasks and conversations; one request at a time.
InitAccess ==
    /\ InitStore
    /\ env = [slots |-> 1, users |-> Users,
              bad_ids |-> {GhostOid, InvalidOid},
              max_tasks |-> AccessMaxTasks,
              max_convs |-> AccessMaxConvs,
              max_appends |-> AccessMaxAppends,
              user_messages |-> {Msg(1)},
              soulcare_messages |-> {Msg(1)},
              contents |-> {Msg(2)}, roles |-> {"assistant"},
              task_updates |-> {None, Some("completed")},
              statuses |-> {}, agent_states |-> {},
              final_statuses |-> {}, error_messages |-> {},
              max_writes |-> 0,
              sids |-> {}, auths |-> {}, engines |-> {},
              emit_faults |-> {},
              live_only |-> FALSE]

NextAccess ==
    \/ CreateTask
    \/ CreateConversation
    \/ GetTask
    \/ UpdateTask
    \/ DeleteTask
    \/ AddMessageToTask
    \/ GetTaskMessages
    \/ GetConversation
    \/ UpdateConversation
    \/ DeleteConversation

SpecAccess == InitAccess /\ [][NextAccess]_vars

\* Concurrent appends: the store operations of up to MaxSlots handlers
\* interleave at every await.
InitConc ==
    /\ InitStore
    /\ env = [slots |-> MaxSlots, users |-> {"u1"},
              bad_ids |-> {},
              max_tasks |-> ConcMaxTasks, max_convs |-> ConcMaxTasks,
              max_appends |-> MaxAppends,
              user_messages |-> {Msg(1)},
              soulcare_messages |-> {},
              contents |-> {Msg(1), Msg(2)},
              roles |-> {"assistant", "user"},
              task_updates |-> {},
              statuses |-> {}, agent_states |-> {},
              final_statuses |-> {}, error_messages |-> {},
              max_writes |-> 0,
              sids |-> {}, auths |-> {}, engines |-> {},
              emit_faults |-> {},
              live_only |-> FALSE]

NextConc ==
    \/ CreateTask
    \/ AddMessageToTask
    \/ GetTaskMessages
    \/ DeleteTask

SpecConc == InitConc /\ [][NextConc]_vars

\* Task lifecycle: plain and agent tasks, every operation that writes a
\* status, and the terminal write of the agent state; one request at a
\* time.
InitLifecycle ==
    /\ InitStore
    /\ env = [slots |-> 1, users |-> {"u1"},
              bad_ids |-> {},
              max_tasks |-> LifecycleMaxTasks,
              max_convs |-> LifecycleMaxTasks,
              max_appends |-> 0,
              user_messages |-> {Msg(1)},
              soulcare_messages |-> {Msg(1)},
              contents |-> {}, roles |-> {},
              task_updates |-> {Some("pending"), Some("completed")},
              statuses |-> {"failed"},
              agent_states |-> {EmptyState, State(1)},
              final_statuses |-> {"completed", "failed"},
              error_messages |-> {None, Some(Msg(1))},
              max_writes |-> StateMaxWrites,
              sids |-> {}, auths |-> {}, engines |-> {},
              emit_faults |-> {},
              live_only |-> FALSE]

NextLifecycle ==
    \/ CreateTask
    \/ SoulcareChat
    \/ UpdateTask
    \/ CompleteTask
    \/ UpdateTaskStatus
    \/ UpdateTaskState

SpecLifecycle == InitLifecycle /\ [][NextLifecycle]_vars

\* Saving and resuming the agent state of a conversation, by its owner
\* and by another user; one request at a time.
InitResume ==
    /\ InitStore
    /\ env = [slots |-> 1, users |-> Users,
              bad_ids |-> {GhostOid},
              max_tasks |-> StateMaxTasks, max_convs |-> StateMaxTasks,
              max_appends |-> 0,
              user_messages |-> {},
              soulcare_messages |-> {Msg(1)},
              contents |-> {}, roles |-> {}, task_updates |-> {},
              statuses |-> {},
              agent_states |-> {EmptyState, State(1), State(2)},
              final_statuses |-> {"completed", "failed"},
              error_messages |-> {None},
              max_writes |-> StateMaxWrites,
              sids |-> {}, auths |-> {}, engines |-> {},
              emit_faults |-> {},
              live_only |-> FALSE]

NextResume ==
    \/ SoulcareChat
    \/ UpdateTaskState
    \/ GetResumableState

SpecResume == InitResume /\ [][NextResume]_vars

----------------------------------------------------------------------------
(* Deleting tasks of conversations that list several *)

InitDelete ==
    /\ InitStore
    /\ env = [slots |-> 1, users |-> Users, bad_ids |-> {},
              max_tasks |-> DeleteMaxTasks, max_convs |-> MaxConvs,
              max_appends |-> 0,
              user_messages |-> {Msg(1)}, soulcare_messages |-> {},
              contents |-> {}, roles |-> {}, task_updates |-> {},
              statuses |-> {}, agent_states |-> {},
              final_statuses |-> {}, error_messages |-> {},
              max_writes |-> 0,
              sids |-> {}, auths |-> {}, engines |-> {},
              emit_faults |-> {},
              live_only |-> FALSE]

NextDelete ==
    \/ CreateTask
    \/ DeleteTask

SpecDelete == InitDelete /\ [][NextDelete]_vars

----------------------------------------------------------------------------
(* Tasks created in a conversation while it is being deleted: requests    *)
(* name only conversations that are stored when they arrive               *)

InitRace ==
    /\ InitStore
    /\ env = [slots |-> MaxSlots, users |-> {"u1"}, bad_ids |-> {},
              max_tasks |-> RaceMaxTasks, max_convs |-> RaceMaxConvs,
              max_appends |-> 0,
              user_messages |-> {Msg(1)}, soulcare_messages |-> {Msg(1)},
              contents |-> {}, roles |-> {}, task_updates |-> {},
              statuses |-> {}, agent_states |-> {},
              final_statuses |-> {}, error_messages |-> {},
              max_writes |-> 0,
              sids |-> {}, auths |-> {}, engines |-> {},
              emit_faults |-> {},
              live_only |-> TRUE]

NextRace ==
    \/ CreateTask
    \/ SoulcareChat
    \/ DeleteConversation

SpecRace == InitRace /\ [][NextRace]_vars

----------------------------------------------------------------------------
(* Agent tasks deleted while terminal writes and appends are under way *)

InitOrphan ==
    /\ InitStore
    /\ env = [slots |-> MaxSlots, users |-> {"u1"}, bad_ids |-> {},
              max_tasks |-> OrphanMaxTasks, max_convs |-> OrphanMaxTasks,
              max_appends |-> MaxAppends,
              user_messages |-> {}, soulcare_messages |-> {Msg(1)},
              contents |-> {Msg(1)}, roles |-> {"assistant"},
              task_updates |-> {},
              statuses |-> {}, agent_states |-> {State(1)},
              final_statuses |-> {"completed", "failed"},
              error_messages |-> {None},
              max_writes |-> OrphanMaxWrites,
              sids |-> {}, auths |-> {}, engines |-> {},
              emit_faults |-> {},
              live_only |-> FALSE]

NextOrphan ==
    \/ SoulcareChat
    \/ DeleteTask
    \/ UpdateTaskState
    \/ AddMessageToTask

SpecOrphan == InitOrphan /\ [][NextOrphan]_vars

----------------------------------------------------------------------------
(* Every operation that writes to a stored task, interleaved at every     *)
(* await: updates, status writes, terminal writes, appends and deletion   *)

InitFrame ==
    /\ InitStore
    /\ env = [slots |-> MaxSlots, users |-> {"u1"}, bad_ids |-> {},
              max_tasks |-> FrameMaxTasks, max_convs |-> FrameMaxTasks,
              max_appends |-> MaxAppends,
              user_messages |-> {Msg(1)},
              soulcare_messages |-> {},
              contents |-> {Msg(1), Msg(2)},
              roles |-> {"assistant"},
              task_updates |-> {Some("completed")},
              statuses |-> {"failed"},
              agent_states |-> {State(1)},
              final_statuses |-> {"completed"},
              error_messages |-> {None},
              max_writes |-> FrameMaxWrites,
              sids |-> {}, auths |-> {}, engines |-> {},
              emit_faults |-> {},
              live_only |-> FALSE]

NextFrame ==
    \/ CreateTask
    \/ UpdateTask
    \/ CompleteTask
    \/ UpdateTaskStatus
    \/ UpdateTaskState
    \/ AddMessageToTask
    \/ DeleteTask

SpecFrame == InitFrame /\ [][NextFrame]_vars

----------------------------------------------------------------------------
(* Listing the tasks of users, page by page *)

InitList ==
    /\ InitStore
    /\ env = [slots |-> 1, users |-> Users, bad_ids |-> {},
              max_tasks |-> ListMaxTasks, max_convs |-> MaxConvs,
              max_appends |-> 0,
              user_messages |-> {Msg(1)}, soulcare_messages |-> {},
              contents |-> {}, roles |-> {}, task_updates |-> {},
              statuses |-> {}, agent_states |-> {},
              final_statuses |-> {}, error_messages |-> {},
              max_writes |-> 0,
              sids |-> {}, auths |-> {}, engines |-> {},
              emit_faults |-> {},
              live_only |-> FALSE]

NextList ==
    \/ CreateTask
    \/ ListTasks

SpecList == InitList /\ [][NextList]_vars

----------------------------------------------------------------------------
(* Connections: handshakes, rooms and chat events, interleaved with the   *)
(* deletion of conversations over HTTP                                    *)

InitSocket ==
    /\ InitStore
    /\ env = [slots |-> MaxSlots, users |-> Users, bad_ids |-> {},
              max_tasks |-> SocketMaxTasks, max_convs |-> SocketMaxConvs,
              max_appends |-> 0,
              user_messages |-> {Msg(1)}, soulcare_messages |-> {},
              contents |-> {}, roles |-> {}, task_updates |-> {},
              statuses |-> {}, agent_states |-> {},
              final_statuses |-> {}, error_messages |-> {},
              max_writes |-> 0,
              sids |-> 1..MaxSids,
              auths |-> {None, Some(BadToken), Some("u1"), Some("u2"),
                         Some("u3"), Some("u4")},
              engines |-> {}, emit_faults |-> {},
              live_only |-> FALSE]

NextSocket ==
    \/ Connect
    \/ Disconnect
    \/ JoinConversation
    \/ LeaveConversation
    \/ Chat
    \/ DeleteConversation

SpecSocket == InitSocket /\ [][NextSocket]_vars

----------------------------------------------------------------------------
(* Agent runs of one connection, with engine faults, emission faults and  *)
(* cancellation                                                           *)

EngineOutcomes == {"success", "raise", "raise_empty", "no_client",
                   "save_error"}

InitAgent ==
    /\ InitStore
    /\ env = [slots |-> 1, users |-> {"u1"}, bad_ids |-> {},
              max_tasks |-> AgentMaxTasks, max_convs |-> AgentMaxConvs,
              max_appends |-> 0,
              user_messages |-> {}, soulcare_messages |-> {Msg(1)},
              contents |-> {}, roles |-> {}, task_updates |-> {},
              statuses |-> {}, agent_states |-> {},
              final_statuses |-> {}, error_messages |-> {},
              max_writes |-> 0,
              sids |-> {1}, auths |-> {Some("u1")},
              engines |-> EngineOutcomes,
              emit_faults |-> {"none", "task_created", "task_updated"},
              live_only |-> FALSE]

NextAgent ==
    \/ Connect
    \/ AgentChat
    \/ Cancel

SpecAgent == InitAgent /\ [][NextAgent]_vars

----------------------------------------------------------------------------
(* Agent runs that are scheduled until they end: any engine outcome, no   *)
(* emission fault, no cancellation                                        *)

InitAgentLive ==
    /\ InitStore
    /\ env = [slots |-> 1, users |-> {"u1"}, bad_ids |-> {},
              max_tasks |-> LiveMaxTasks, max_convs |-> AgentMaxConvs,
              max_appends |-> 0,
              user_messages |-> {}, soulcare_messages |-> {Msg(1)},
              contents |-> {}, roles |-> {}, task_updates |-> {},
              statuses |-> {}, agent_states |-> {},
              final_statuses |-> {}, error_messages |-> {},
              max_writes |-> 0,
              sids |-> {1}, auths |-> {Some("u1")},
              engines |-> EngineOutcomes,
              emit_faults |-> {"none"},
              live_only |-> FALSE]

NextAgentLive ==
    \/ Connect
    \/ AgentChat

\* The event loop resumes every suspended handler
SpecAgentLive ==
    /\ InitAgentLive
    /\ [][NextAgentLive]_vars
    /\ \A s \in 1..MaxSlots : WF_vars(ResumeEvent(s, "agent_chat"))

----------------------------------------------------------------------------
(* Reading the outcome of a call *)

Completed(op) == last.op = op /\ IsDone(last)

Succeeded(op) == Completed(op) /\ last.outcome = "ok"

\* No handler is suspended between two store operations
Quiescent == \A s \in 1..MaxSlots : calls[s] = NoCall

\* The conversation a chat request names: the path id of /continue
\* overrides the id in the body
Named(c) == IF c.op = "continue_conversation"
            THEN c.path_conversation_id ELSE c.conversation_id

OwnedConversation(cid, user_id) ==
    cid \in DOMAIN conversations /\ conversations[cid].user_id = user_id

----------------------------------------------------------------------------
(* Claims about task creation and the conversation/task association *)

\* C1: every successful createTask stores and returns a Task with status
\* pending and exactly one ChatMessage, of role user, whose content is the
\* user message.
C1_CreatedTaskHoldsUserMessage ==
    Succeeded("create_task") =>
        LET task == last.data[1]
        IN /\ task.status = "pending"
           /\ task.id \in DOMAIN tasks
           /\ tasks[task.id] = task
           /\ Len(task.messages) = 1
           /\ task.messages[1].role = "user"
           /\ task.messages[1].content = last.message

\* C2: a chat request without conversation_id succeeds; the response has a
\* conversation_id, a user_message of role user with the sent content, and
\* no assistant responses.
C2_ChatNewConversationResponds ==
    (Completed("send_message") /\ last.conversation_id = NoneOid) =>
        /\ last.outcome = "ok"
        /\ ObjectId_is_valid(last.data[1].conversation_id)
        /\ last.data[1].user_message.role = "user"
        /\ last.data[1].user_message.content = last.message
        /\ last.data[1].assistant_responses = <<>>

\* C4: a chat request naming an existing conversation of the caller creates
\* no conversation; the new Task references the named conversation, its id
\* is in that conversation's task list, and the response carries the named
\* conversation_id.
C4_ChatExistingConversationResponds ==
    (/\ Completed("send_message") \/ Completed("continue_conversation")
     /\ OwnedConversation(Named(last), last.user_id)) =>
        /\ last.outcome = "ok"
        /\ last.cid = Named(last)
        /\ last.data[1].conversation_id = Named(last)
        /\ last.data[1].task_id \in DOMAIN tasks
        /\ tasks[last.data[1].task_id].conversation_id = Named(last)
        /\ InSeq(last.data[1].task_id, conversations[Named(last)].task_ids)

\* C5: (at every state with no handler in mid-flight) each id in a
\* conversation's task list is an existing Task of the conversation's owner,
\* and each Task's id is in the task list of exactly one conversation, the
\* one the Task references.
C5_AssociationInvariant ==
    Quiescent =>
        /\ \A c \in DOMAIN conversations :
              \A i \in 1..Len(conversations[c].task_ids) :
                 LET t == conversations[c].task_ids[i]
                 IN /\ t \in DOMAIN tasks
                    /\ tasks[t].user_id = conversations[c].user_id
        /\ \A t \in DOMAIN tasks :
              {c \in DOMAIN conversations :
                    InSeq(t, conversations[c].task_ids)}
                 = {tasks[t].conversation_id}

\* C6: no step taken on behalf of a user changes a Conversation or a Task
\* of another user, and createTask / createAgentTask with the id of another
\* user's conversation is answered not found.
C6_NoCrossUserMutation ==
    [][/\ \A c \in DOMAIN conversations :
             conversations[c].user_id # last'.user_id =>
                /\ c \in DOMAIN conversations'
                /\ conversations'[c] = conversations[c]
       /\ \A t \in DOMAIN tasks :
             tasks[t].user_id # last'.user_id =>
                /\ t \in DOMAIN tasks'
                /\ tasks'[t] = tasks[t]
       /\ (/\ last'.op \in {"create_task", "soulcare_chat"}
           /\ IsDone(last')
           /\ last'.conversation_id \in DOMAIN conversations
           /\ conversations[last'.conversation_id].user_id # last'.user_id)
             => last'.outcome = "not_found"]_vars

\* The title the claim describes for user message m: the first TitleLen
\* characters, followed by an ellipsis iff m is longer than TitleLen.
IsTruncatedTitle(title, m) ==
    IF Len(m) > TitleLen
    THEN /\ Len(title) = TitleLen + 3
         /\ \A i \in 1..TitleLen : title[i] = m[i]
         /\ \A i \in 1..3 : title[TitleLen + i] = "."
    ELSE title = m

\* C3: createTask without a conversation id creates exactly one
\* Conversation, owned by the caller and titled by the truncated user
\* message; when the call returns, that conversation's task list is exactly
\* the new Task's id.
C3_NewConversationForTask ==
    [][(last'.op = "create_task" /\ last'.conversation_id = NoneOid) =>
          /\ IF last'.pc = "create"
             THEN /\ last'.cid \notin DOMAIN conversations
                  /\ DOMAIN conversations' =
                        DOMAIN conversations \cup {last'.cid}
                  /\ conversations'[last'.cid].user_id = last'.user_id
                  /\ IsTruncatedTitle(conversations'[last'.cid].title,
                                      last'.message)
             ELSE DOMAIN conversations' = DOMAIN conversations
          /\ IsDone(last') =>
                /\ last'.outcome = "ok"
                /\ conversations'[last'.cid].task_ids
                        = <<last'.data[1].id>>
                /\ conversations'[last'.cid].user_id = last'.user_id
                /\ IsTruncatedTitle(conversations'[last'.cid].title,
                                    last'.message)]_vars

C3_Witness ==
    /\ Succeeded("create_task")
    /\ last.conversation_id = NoneOid
    /\ Len(last.message) > TitleLen
    /\ conversations[last.cid].task_ids = <<last.data[1].id>>

----------------------------------------------------------------------------
(* Claims about ownership *)

TaskOps == {"get_task", "update_task", "delete_task",
            "add_message_to_task", "get_task_messages"}

ConversationOps == {"get_conversation", "update_conversation",
                    "delete_conversation"}

\* C7: get, update, delete, message-append and message-list on a Task, and
\* get, update and delete on a Conversation, by a user who is not the owner
\* return not found with no data and leave the store unchanged.
C7_NonOwnerGetsNotFound ==
    [][(\/ /\ last'.op \in TaskOps
           /\ last'.task_id \in DOMAIN tasks
           /\ tasks[last'.task_id].user_id # last'.user_id
        \/ /\ last'.op \in ConversationOps
           /\ last'.conversation_id \in DOMAIN conversations
           /\ conversations[last'.conversation_id].user_id # last'.user_id)
       => /\ IsDone(last')
          /\ last'.outcome = "not_found"
          /\ last'.data = None
          /\ tasks' = tasks
          /\ conversations' = conversations]_vars

C7_Witness ==
    /\ Completed("update_task")
    /\ last.update # None
    /\ last.outcome = "not_found"
    /\ last.task_id \in DOMAIN tasks
    /\ tasks[last.task_id].user_id # last.user_id

\* The store in which task x / conversation x does not exist
DbWithoutTask(db, x) ==
    [db EXCEPT !.tasks = Without(db.tasks, {x}),
               !.conversations =
                    [c \in DOMAIN db.conversations |->
                        [db.conversations[c] EXCEPT !.task_ids = Pull(@, x)]]]

DbWithoutConversation(db, x) ==
    [db EXCEPT !.conversations = Without(db.conversations, {x})]

\* Every request of user u that names task x / conversation x
CallsOnTask(u, x) ==
    {[NewCall(op, u) EXCEPT !.task_id = x, !.role = role, !.message = m,
                            !.update = upd] :
        op \in TaskOps, role \in env.roles, m \in env.contents,
        upd \in env.task_updates}

CallsOnConversation(u, x) ==
    {[NewCall(op, u) EXCEPT !.conversation_id = x,
                            !.path_conversation_id = x,
                            !.message = m, !.update = upd] :
        op \in ConversationOps \cup {"create_task", "send_message",
                                     "continue_conversation", "soulcare_chat"},
        m \in env.user_messages, upd \in ConversationUpdates}

\* What the caller sees of a finished call
Observation(r) == [outcome |-> r.call.outcome, data |-> r.call.data]

\* C8: for every operation and caller, the outcome when the target id
\* belongs to another user equals the outcome in the store that differs only
\* in that the entity does not exist.
C8_OtherUsersEntityLooksAbsent ==
    \A u \in env.users :
        /\ \A x \in DOMAIN tasks :
              tasks[x].user_id # u =>
                 \A c \in CallsOnTask(u, x) :
                    Observation(Run(DB, c))
                        = Observation(Run(DbWithoutTask(DB, x), c))
        /\ \A x \in DOMAIN conversations :
              conversations[x].user_id # u =>
                 \A c \in CallsOnConversation(u, x) :
                    Observation(Run(DB, c))
                        = Observation(Run(DbWithoutConversation(DB, x), c))

C8_Witness ==
    /\ Completed("get_conversation")
    /\ last.outcome = "not_found"
    /\ last.conversation_id \in DOMAIN conversations
    /\ conversations[last.conversation_id].user_id # last.user_id
    /\ \E t \in DOMAIN tasks : tasks[t].user_id # last.user_id

----------------------------------------------------------------------------
(* Claims about the message sequence *)

\* C9: concurrent appendMessage calls on one Task add one entry per
\* successful call, in the order in which the calls completed: no append is
\* lost or duplicated.
C9_AppendsNeitherLostNorDuplicated ==
    \A t \in DOMAIN tasks : tasks[t].messages = AppendsTo(t)

\* An append completed although another append went in between its
\* ownership check and its push
C9_Witness ==
    /\ Succeeded("add_message_to_task")
    /\ last.task[1].messages = <<>>
    /\ Len(tasks[last.task_id].messages) = 2
    /\ tasks[last.task_id].messages[2] = last.data[1]

\* C10: after createTask and k successful appends, listing the Task's
\* messages returns k+1 messages: the user message first, then the appended
\* messages in append order with their roles.
C10_ListReturnsUserMessageThenAppends ==
    Succeeded("get_task_messages") =>
        LET listed == last.data[1]
            task == tasks[last.task_id]
            appended == AppendsTo(last.task_id)
        IN /\ Len(listed) = Len(appended) + 1
           /\ listed[1].role = "user"
           /\ listed[1].content = task.user_message
           /\ \A i \in 1..Len(appended) : listed[i + 1] = appended[i]

----------------------------------------------------------------------------
\* C11: an append with role user is rejected and leaves the message
\* sequence of every task unchanged; every message a task holds after an
\* append has role assistant or system.
C11_UserRoleAppendRejected ==
    [][(last'.op = "add_message_to_task" /\ IsDone(last'))
        => /\ last'.role = "user"
                => /\ last'.outcome = "validation_error"
                   /\ tasks' = tasks
           /\ last'.outcome = "ok"
                => /\ last'.role \in AppendRoles
                   /\ \A i \in 1..Len(tasks'[last'.task_id].messages) :
                        tasks'[last'.task_id].messages[i].role \in AppendRoles
      ]_vars

\* The owner of an existing task has tried to append a user message
C11_Witness ==
    /\ Completed("add_message_to_task")
    /\ last.role = "user"
    /\ last.task_id \in DOMAIN tasks
    /\ tasks[last.task_id].user_id = last.user_id

----------------------------------------------------------------------------
(* Task lifecycle *)

Terminal == {"completed", "failed"}

AgentTaskStarted(task) ==
    /\ task.status = "in_progress"
    /\ task.started_at
    /\ ~IsNone(task.agent_type)

\* C12: a task created by create_soulcare_task is in_progress, with
\* started_at and agent_type set, in the step that inserts it and when the
\* creating call returns it; no step of the creation leaves it pending.
C12_AgentTaskStartsInProgress ==
    [][last'.op = "soulcare_chat"
        => /\ \A t \in (DOMAIN tasks') \ (DOMAIN tasks) :
                    AgentTaskStarted(tasks'[t])
           /\ (IsDone(last') /\ last'.outcome = "ok")
                => /\ AgentTaskStarted(last'.data[1])
                   /\ last'.data[1].id \in DOMAIN tasks'
                   /\ AgentTaskStarted(tasks'[last'.data[1].id])
      ]_vars

C12_Witness ==
    /\ Succeeded("soulcare_chat")
    /\ last.data[1].id \in DOMAIN tasks
    /\ tasks[last.data[1].id].status = "in_progress"

\* C13: in every reachable state, a task has completed_at set if and only
\* if its status is completed or failed.
C13_CompletedAtIffTerminal ==
    \A t \in DOMAIN tasks :
        (~IsNone(tasks[t].completed_at)) <=> (tasks[t].status \in Terminal)

\* C14: the only status changes that occur are pending -> in_progress,
\* in_progress -> completed and in_progress -> failed.
C14_StatusFollowsStateMachine ==
    [][\A t \in (DOMAIN tasks) \cap (DOMAIN tasks') :
          tasks'[t].status # tasks[t].status
            => <<tasks[t].status, tasks'[t].status>> \in
                  {<<"pending", "in_progress">>,
                   <<"in_progress", "completed">>,
                   <<"in_progress", "failed">>}
      ]_vars

\* C15: once a task is completed or failed, no step changes its status or
\* its agent_state (a repeat of the same terminal write changes neither).
C15_TerminalIsFinal ==
    [][\A t \in (DOMAIN tasks) \cap (DOMAIN tasks') :
          tasks[t].status \in Terminal
            => /\ tasks'[t].status = tasks[t].status
               /\ tasks'[t].agent_state = tasks[t].agent_state
      ]_vars

C17_TerminalWriteIdempotent ==
    [][\A t \in (DOMAIN tasks) \cap (DOMAIN tasks') :
          (/\ last'.op = "update_task_with_agent_state"
           /\ last'.task_id = t
           /\ ~IsNone(tasks[t].completed_at)
           /\ tasks[t].status \in Terminal
           /\ tasks'[t].status = tasks[t].status
           /\ tasks'[t].agent_state = tasks[t].agent_state)
            => tasks'[t] = tasks[t]
      ]_vars

----------------------------------------------------------------------------
(* Resumable state *)

\* A returned state, with "no state" read as the empty state
Blob(o) == IF IsNone(o) THEN EmptyState ELSE o[1]

\* Tasks of a conversation whose status is completed
CompletedTasks(cid) ==
    {t \in DOMAIN tasks : /\ tasks[t].conversation_id = cid
                          /\ tasks[t].status = "completed"
                          /\ ~IsNone(tasks[t].completed_at)}

LatestCompleted(cid) ==
    CHOOSE t \in CompletedTasks(cid) :
        \A t2 \in CompletedTasks(cid) :
            tasks[t2].completed_at[1] <= tasks[t].completed_at[1]

\* C18: get_conversation_state returns the agent_state of the task with
\* status completed that has the greatest completed_at in the conversation,
\* and none when there is no completed task or the caller is not the owner.
C18_ResumableStateIsLatestCompleted ==
    Completed("get_conversation_state")
        => Blob(last.data) =
              IF \/ ~OwnedConversation(last.conversation_id, last.user_id)
                 \/ CompletedTasks(last.conversation_id) = {}
              THEN EmptyState
              ELSE tasks[LatestCompleted(last.conversation_id)].agent_state

\* C19: after update_task_with_agent_state(task, S, completed) with no
\* later completed task in the conversation, get_conversation_state by the
\* owner returns S.
C19_StateRoundTrip ==
    \A t \in DOMAIN tasks :
        (/\ Completed("get_conversation_state")
         /\ OwnedConversation(last.conversation_id, last.user_id)
         /\ t \in CompletedTasks(last.conversation_id)
         /\ t = LatestCompleted(last.conversation_id))
            => Blob(last.data) = tasks[t].agent_state

----------------------------------------------------------------------------
(* Deletion cascade *)

TasksOf(cid) == {t \in DOMAIN tasks : tasks[t].conversation_id = cid}

\* C20: delete_conversation by the owner removes every task that
\* references the conversation, then the conversation; when it returns
\* success the conversation and those tasks are absent and a get on any
\* task id no longer stored finds nothing; no conversation is removed
\* while a task still references it.
C20_DeleteConversationCascades ==
    [][/\ \A s \in 1..MaxSlots :
            LET c == calls[s] IN
            /\ (c.op = "delete_conversation" /\ c.pc = "delete_tasks")
                    => \A t \in TasksOf(c.conversation_id) :
                            t \notin DOMAIN tasks'
            /\ (/\ c.op = "delete_conversation" /\ c.pc = "delete"
                 /\ IsDone(last') /\ last'.outcome = "ok")
                    => /\ c.conversation_id \notin DOMAIN conversations'
                       /\ \A t \in DOMAIN tasks' :
                            tasks'[t].conversation_id # c.conversation_id
                       /\ \A t \in (1..(next_task_oid' - 1)) \ DOMAIN tasks',
                             u \in Users :
                            IsNone(get_user_task(
                                [tasks |-> tasks'], t, u))
       /\ \A cid \in (DOMAIN conversations) \ (DOMAIN conversations') :
            TasksOf(cid) = {}
      ]_vars

\* The owner's delete has removed the two tasks the conversation lists
\* and is about to remove the conversation
C20_Witness ==
    \E s \in 1..MaxSlots :
        /\ calls[s].op = "delete_conversation"
        /\ calls[s].pc = "delete"
        /\ calls[s].conversation_id \in DOMAIN conversations
        /\ Len(conversations[calls[s].conversation_id].task_ids) = 2
        /\ \A i \in 1..2 :
              conversations[calls[s].conversation_id].task_ids[i]
                  \notin DOMAIN tasks

----------------------------------------------------------------------------
(* Deleting a task *)

Before(s, x, y) ==
    \E i, j \in 1..Len(s) : i < j /\ s[i] = x /\ s[j] = y

Elems(s) == {s[i] : i \in 1..Len(s)}

\* C21: when the owner's delete of a task succeeds, the task is no longer
\* stored and its id is not in the task list of its conversation, whose
\* other ids are all still there, once each and in the order they had.
C21_DeleteTaskDetaches ==
    [][\A s \in 1..MaxSlots :
         LET c == calls[s]
             cid == c.task[1].conversation_id
         IN /\ (/\ c.op = "delete_task" /\ c.pc = "remove"
                 /\ cid \in DOMAIN conversations)
                  => /\ cid \in DOMAIN conversations'
                     /\ LET old == conversations[cid].task_ids
                            new == conversations'[cid].task_ids
                        IN /\ Elems(new) = Elems(old) \ {c.task_id}
                           /\ Len(new) = Cardinality(Elems(new))
                           /\ \A x, y \in Elems(new) :
                                 Before(new, x, y) <=> Before(old, x, y)
            /\ (/\ c.op = "delete_task" /\ c.pc = "delete"
                 /\ IsDone(last') /\ last'.outcome = "ok")
                  => /\ c.task_id \notin DOMAIN tasks'
                     /\ cid \in DOMAIN conversations'
                            => ~InSeq(c.task_id,
                                      conversations'[cid].task_ids)
      ]_vars

\* The owner has deleted the middle one of three tasks of a conversation
C21_Witness ==
    /\ last.op = "delete_task" /\ IsDone(last) /\ last.outcome = "ok"
    /\ last.task_id = 2
    /\ last.task_id \notin DOMAIN tasks
    /\ last.task[1].conversation_id \in DOMAIN conversations
    /\ conversations[last.task[1].conversation_id].task_ids = <<1, 3>>

----------------------------------------------------------------------------
(* Connections *)

MembershipsOf(sid) == {m \in rooms : m[1] = sid}

\* The handshakes the server must refuse: no token, a token that does not
\* verify, the token of an inactive user, the token of a user that does
\* not exist
Refusable(auth) ==
    \/ IsNone(auth)
    \/ auth[1] = BadToken
    \/ auth[1] \in InactiveUsers
    \/ auth[1] \notin ActiveUsers \cup InactiveUsers

\* C27: a connect whose auth has no token, an invalid token, an unknown
\* or an inactive user is refused and the connection is dropped: the
\* session map has no entry for it, it is in no room, and the maps of
\* the other connections are as they were.
C27_RefusedConnectLeavesNoSession ==
    [][(last'.op = "connect" /\ Refusable(last'.auth))
          => /\ last'.outcome = "refused"
             /\ last'.sid \notin DOMAIN user_sessions'
             /\ {m \in rooms' : m[1] = last'.sid} = {}
             /\ user_sessions' = user_sessions
             /\ user_rooms' = user_rooms
             /\ rooms' = rooms
      ]_vars

\* The handshake of an unknown user was refused while another connection
\* is open
C27_Witness ==
    /\ last.op = "connect" /\ last.outcome = "refused"
    /\ last.auth = Some("u4")
    /\ last.sid \notin DOMAIN user_sessions
    /\ user_sessions # <<>>

OwnedBySession(sid, cid) ==
    /\ sid \in DOMAIN user_sessions
    /\ cid \in DOMAIN conversations
    /\ conversations[cid].user_id = user_sessions[sid]

\* C29: a step of a join or leave request changes room membership only
\* when the connection is authenticated and the conversation exists and
\* belongs to its user.
C29_MembershipGatedByOwnership ==
    [][(/\ last'.op \in {"join_conversation", "leave_conversation"}
        /\ ~OwnedBySession(last'.sid, last'.conversation_id))
          => rooms' = rooms
      ]_vars

\* An event of connection sid, as the call its handler starts with
Event(op, sid, cid, m, engine) ==
    [NewCall(op, "") EXCEPT !.sid = sid, !.conversation_id = cid,
                            !.payload = "dict",
                            !.message = m, !.engine = engine,
                            !.emit_fault = "none"]

\* C30: at every state, a chat event with a message and with no
\* conversation id or the id of a conversation, arriving on a connection
\* the session map holds, stores exactly one new task, owned by the
\* user of that connection, and changes no other task; a chat, agent
\* chat or join event on a connection the session map does not hold
\* stores no task and no conversation.
C30_ChatEventCreatesOneTask ==
    \A sid \in 1..MaxSids, cid \in ConvIdArgs \cup {NoneOid} :
        IF sid \in DOMAIN user_sessions
        THEN LET r == RunEvent(DB, Event("chat", sid, cid, Msg(1), ""))
                 t == next_task_oid
             IN /\ t \notin DOMAIN tasks
                /\ DOMAIN r.db.tasks = DOMAIN tasks \cup {t}
                /\ r.db.tasks[t].user_id = user_sessions[sid]
                /\ r.db.tasks[t].user_message = Msg(1)
                /\ \A x \in DOMAIN tasks : r.db.tasks[x] = tasks[x]
        ELSE \A op \in {"chat", "agent_chat", "join_conversation"},
                engine \in EngineOutcomes :
                LET r == RunEvent(DB, Event(op, sid, cid, Msg(1), engine))
                IN /\ r.db.tasks = tasks
                   /\ r.db.conversations = conversations
                   /\ r.db.next_task_oid = next_task_oid
                   /\ r.db.next_conversation_oid = next_conversation_oid

\* The chat event of u1's connection has run to its end and stored u1's
\* task, while another connection is not in the session map
C30_Witness ==
    /\ last.op = "chat" /\ IsDone(last) /\ last.user_id = "u1"
    /\ \E t \in DOMAIN tasks : tasks[t].user_id = "u1"
    /\ user_sessions # <<>>
    /\ \E sid \in 1..MaxSids : sid \notin DOMAIN user_sessions

----------------------------------------------------------------------------
(* Agent runs *)

Count(trace, events) ==
    Cardinality({i \in 1..Len(trace) : trace[i] \in events})

TerminalWrites(trace) == Count(trace, {"write_completed", "write_failed"})

\* The call that just ended was an agent run whose task was created
\* and announced
AgentRunEnded ==
    /\ last.op = "agent_chat" /\ IsDone(last)
    /\ Count(last.trace, {"task_created"}) = 1

\* C22: when the engine raises during an agent run (the emissions
\* working, the run not cancelled), the run ends with the task failed
\* and carrying a non-empty error_message, and the connection has been
\* sent exactly one error event.
C22_EngineFailureRecorded ==
    (/\ AgentRunEnded
     /\ last.engine \in {"raise", "raise_empty", "no_client"}
     /\ last.emit_fault = "none" /\ ~last.cancelled)
        => /\ tasks[last.task_id].status = "failed"
           /\ Truthy(tasks[last.task_id].error_message)
           /\ Count(last.trace, {"task_message_error", "error"}) = 1

\* C23: an agent run that was not cancelled and whose task was announced
\* has written a terminal status exactly once when it ends, whether the
\* engine succeeded, raised, failed to save its state, or the
\* task_updated event could not be sent after the write.
C23_ExactlyOneTerminalWrite ==
    (/\ AgentRunEnded /\ ~last.cancelled
     /\ last.emit_fault \in {"none", "task_updated"})
        => TerminalWrites(last.trace) = 1

\* C24: in a run whose emissions work, every error event of the task is
\* preceded by the write of the failed status.
C24_FailedWrittenBeforeErrorEvent ==
    (last.op = "agent_chat" /\ last.emit_fault = "none")
        => \A i \in 1..Len(last.trace) :
              (/\ last.trace[i] \in {"task_message_error", "error"}
               /\ \E k \in 1..i : last.trace[k] = "task_created")
                  => \E j \in 1..(i - 1) : last.trace[j] = "write_failed"

\* C26: a run cancelled while its engine was running ends without
\* success, with its task failed by exactly one terminal write.
C26_CancelledRunWritesOnce ==
    (AgentRunEnded /\ last.engine = "cancelled_error")
        => /\ last.outcome # "ok"
           /\ TerminalWrites(last.trace) = 1
           /\ tasks[last.task_id].status = "failed"

\* C25: every task an agent chat event created leaves in_progress and
\* becomes completed or failed, whatever the engine does (success, an
\* exception with or without a message, no client, a state that cannot be
\* saved), when the handler is resumed until it ends.
C25_AgentTaskEventuallyTerminal ==
    \A t \in 1..LiveMaxTasks :
        (t \in DOMAIN tasks /\ tasks[t].status = "in_progress")
            ~> (t \in DOMAIN tasks
                /\ tasks[t].status \in {"completed", "failed"})

\* The second run has ended with its task failed after its engine
\* raised; the first run's task is terminal as well
C25_Witness ==
    /\ AgentRunEnded /\ last.engine = "raise" /\ last.task_id = 2
    /\ tasks[2].status = "failed"
    /\ tasks[1].status \in {"completed", "failed"}

----------------------------------------------------------------------------
(* Malformed events *)

\* C31: a chat or agent chat event whose data is not an object, has no
\* message or has a blank message, on an authenticated connection, is
\* answered with one error event and changes nothing: no task, no
\* conversation, no session entry and no room membership.
C31_MalformedEventRejected ==
    \A sid \in DOMAIN user_sessions, op \in {"chat", "agent_chat"},
       d \in Malformed, cid \in ConvIdArgs \cup {NoneOid} :
        LET r == RunEvent(DB, [Event(op, sid, cid, d.message, "success")
                                 EXCEPT !.payload = d.payload])
        IN /\ r.call.trace = <<"error">>
           /\ r.db = DB

\* A connection that is in a conversation room has just had a chat event
\* with a blank message rejected, and is still registered and in its rooms
C31_Witness ==
    /\ last.op = "chat" /\ IsDone(last) /\ last.outcome = "invalid"
    /\ last.message = <<" ", " ">>
    /\ last.sid \in DOMAIN user_sessions
    /\ \E cid \in DOMAIN conversations :
          <<last.sid, ConversationRoom(cid)>> \in rooms
    /\ <<last.sid, UserRoom(user_sessions[last.sid])>> \in rooms

----------------------------------------------------------------------------
(* Delivery *)

\* The connections an event sent to a room is delivered to
Receivers(room) == {m[1] : m \in {x \in rooms : x[2] = room}}

ErrorEvents == {"error", "task_message_error"}

\* The error events of call c went to the room of c's connection, which
\* holds nobody else
ErrorsToOwnRoom(c) ==
    \A i \in 1..Len(c.trace) :
        c.trace[i] \in ErrorEvents
            => /\ c.targets[i] = SidRoom(c.sid)
               /\ Receivers(c.targets[i]) \subseteq {c.sid}

\* C32: every error event a handler has sent went to the room of the
\* connection whose event the handler serves, and nobody but that
\* connection is in that room; so do the error events of an agent run
\* started at any state, for every engine outcome and emission fault.
C32_ErrorEventsToActingConnection ==
    /\ ErrorsToOwnRoom(last)
    /\ \A sid \in 1..MaxSids, engine \in EngineOutcomes,
          fault \in {"none", "task_created", "task_updated"} :
            ErrorsToOwnRoom(
                RunEvent(DB, [Event("agent_chat", sid, NoneOid, Msg(1),
                                    engine)
                                EXCEPT !.emit_fault = fault]).call)

\* A chat event of a user with two open connections has been answered
\* with an error event
C32_Witness ==
    /\ last.op = "chat" /\ IsDone(last)
    /\ last.trace = <<"error">>
    /\ last.sid \in DOMAIN user_sessions
    /\ \E sid \in DOMAIN user_sessions :
          /\ sid # last.sid
          /\ user_sessions[sid] = user_sessions[last.sid]

----------------------------------------------------------------------------
(* Pagination *)

\* C33: a list request answers with skip 0 for a negative skip and the
\* requested skip otherwise, with limit 1 for a limit below 1, 100 for a
\* limit above 100 and the requested limit otherwise; its page holds the
\* caller's tasks from position skip on, newest first, at most limit of them.
C33_PaginationClamped ==
    (last.op = "list_tasks" /\ IsDone(last))
        => LET out == last.data[1]
               mine == {t \in DOMAIN tasks : tasks[t].user_id = last.user_id}
           IN /\ out.skip = (IF last.skip < 0 THEN 0 ELSE last.skip)
              /\ out.limit = (IF last.limit < 1 THEN 1
                              ELSE IF last.limit > 100 THEN 100
                              ELSE last.limit)
              /\ last.limit \in {0 - 1, 0} => out.limit = 1
              /\ last.limit = 500 => out.limit = 100
              /\ last.skip = 0 - 5 => out.skip = 0
              /\ out.total = Cardinality(mine)
              /\ Len(out.tasks) =
                    Min(out.limit,
                        IF out.total > out.skip THEN out.total - out.skip
                        ELSE 0)
              /\ \A i \in 1..Len(out.tasks) :
                    /\ out.tasks[i].id \in mine
                    /\ Cardinality({t \in mine : t > out.tasks[i].id})
                          = out.skip + i - 1

\* A user with three tasks asked for limit 0 and got the newest task
C33_Witness ==
    /\ last.op = "list_tasks" /\ IsDone(last)
    /\ last.limit = 0 /\ last.skip = 0 - 5
    /\ last.data[1].total = 3
    /\ Len(last.data[1].tasks) = 1
    /\ last.data[1].tasks[1].id = 3

----------------------------------------------------------------------------
(* The events of an agent run *)

TerminalMessages == {"task_message_complete", "task_message_error"}

\* The events of call c are in the order of an agent run
RunEventsOrdered(c) ==
    /\ \A i \in 1..Len(c.trace) :
          c.trace[i] \in TerminalMessages \cup {"stream", "task_updated"}
              => c.trace[1] = "task_created"
    /\ \A i, j \in 1..Len(c.trace) :
          (i < j /\ c.trace[i] \in TerminalMessages)
              => c.trace[j] \notin TerminalMessages \cup {"stream"}
    /\ \A i \in 1..Len(c.trace) :
          c.trace[i] = "task_updated"
              => /\ \E j \in 1..(i - 1) :
                      c.trace[j] \in {"write_completed", "write_failed"}
                 /\ tasks[c.task_id].status = c.status
    /\ (IsDone(c) /\ Count(c.trace, {"task_created"}) = 1)
          => Count(c.trace, TerminalMessages) = 1

\* C34: in an agent run whose emissions work and which is not cancelled,
\* task_created comes first, the stream messages follow, exactly one
\* task_message of type complete or error ends them, and task_updated
\* comes after the terminal write with the status that was stored.
C34_RunEventsInOrder ==
    (last.op = "agent_chat" /\ last.emit_fault = "none"
     /\ ~last.cancelled)
        => RunEventsOrdered(last)

----------------------------------------------------------------------------
(* The connection maps *)

\* C35: every connection in the session map has its user's entry in the
\* user-to-room map and is a member of the room that entry names.
C35_SessionsHaveUserRoom ==
    \A sid \in DOMAIN user_sessions :
        /\ user_sessions[sid] \in DOMAIN user_rooms
        /\ <<sid, user_rooms[user_sessions[sid]]>> \in rooms

----------------------------------------------------------------------------
(* Creation racing with deletion *)

\* C36: when no request is running, every stored task references a
\* stored conversation, although tasks were created in conversations
\* while those were being deleted (requests name only conversations that
\* are stored when the request arrives).
C36_NoTaskOfDeletedConversation ==
    Quiescent
        => \A t \in DOMAIN tasks :
              tasks[t].conversation_id \in DOMAIN conversations

----------------------------------------------------------------------------
(* The terminal write *)

\* C37: a successful update_task_with_agent_state sets
\* completion_percentage to 100 when the status it stores is completed,
\* and leaves completion_percentage as it was when it stores failed.
C37_FullPercentageOnlyWhenCompleted ==
    [][\A t \in (DOMAIN tasks) \cap (DOMAIN tasks') :
          (/\ last'.op = "update_task_with_agent_state"
           /\ last'.task_id = t
           /\ last'.outcome = "ok")
            => IF tasks'[t].status = "completed"
               THEN tasks'[t].completion_percentage = 100
               ELSE tasks'[t].completion_percentage
                        = tasks[t].completion_percentage
      ]_vars

----------------------------------------------------------------------------
(* Writes to deleted tasks *)

\* C38: a terminal write or an append that reaches the store for a task
\* that is no longer stored ends with not found and leaves the tasks and
\* the conversations, task lists included, as they were.
C38_WriteToDeletedTaskNotFound ==
    [][(/\ last'.op \in {"update_task_with_agent_state",
                          "add_message_to_task"}
        /\ last'.task_id \notin DOMAIN tasks)
          => /\ IsDone(last')
             /\ last'.outcome = "not_found"
             /\ tasks' = tasks
             /\ conversations' = conversations
      ]_vars

\* An append passed its ownership check on a task in progress, the task
\* was deleted, and the push found nothing
C38_Witness ==
    /\ last.op = "add_message_to_task" /\ IsDone(last)
    /\ last.outcome = "not_found"
    /\ ~IsNone(last.task)
    /\ last.task[1].status = "in_progress"
    /\ last.task_id \notin DOMAIN tasks

\* C39: no step changes a stored task's user_message, owning user or
\* conversation reference, and every step leaves the messages a task
\* already had as a prefix of its messages afterwards: the sequence is
\* only ever extended at its end.
C39_TaskIdentityAndMessagesKept ==
    [][\A t \in DOMAIN tasks \cap DOMAIN tasks' :
            /\ tasks'[t].user_message = tasks[t].user_message
            /\ tasks'[t].user_id = tasks[t].user_id
            /\ tasks'[t].conversation_id = tasks[t].conversation_id
            /\ Len(tasks[t].messages) <= Len(tasks'[t].messages)
            /\ Prefix(tasks'[t].messages, Len(tasks[t].messages))
                    = tasks[t].messages]_vars

\* A terminal write has landed on a task that two appends with different
\* contents extended, while an update of the same task is under way.
C39_Witness ==
    /\ last.op = "update_task_with_agent_state" /\ IsDone(last)
    /\ last.outcome = "ok"
    /\ last.task_id \in DOMAIN tasks
    /\ Len(tasks[last.task_id].messages) = 2
    /\ tasks[last.task_id].messages[1] # tasks[last.task_id].messages[2]
    /\ tasks[last.task_id].user_message = Msg(1)
    /\ \E s \in 1..env.slots :
            /\ calls[s].op = "update_task" /\ ~IsDone(calls[s])

\* C40: every successful append returns the message that this call
\* appended, with the call's role and content, also when the appends of
\* other handlers on the same task went in between its ownership check
\* and its push.
C40_AppendReturnsOwnMessage ==
    Succeeded("add_message_to_task") =>
        /\ last.data[1] = [role |-> last.role, content |-> last.message]
        /\ \E i \in 1..Len(AppendsTo(last.task_id)) :
                AppendsTo(last.task_id)[i] = last.data[1]

\* An append returned its own message although an append with another
\* content reached the task after this call's ownership check
C40_Witness ==
    /\ Succeeded("add_message_to_task")
    /\ last.task[1].messages = <<>>
    /\ last.task_id \in DOMAIN tasks
    /\ Len(tasks[last.task_id].messages) = 2
    /\ tasks[last.task_id].messages[1].content # last.message
    /\ tasks[last.task_id].messages[2].content = last.message
    /\ last.data[1].content = last.message

====
